---- MODULE Spec2Model ----
(***************************************************************************)
(* A model of the Telegram auto-filter bot: the media store wrapper        *)
(* (database.py), the channel scanner and its batch driver (main.py:       *)
(* index_channel, index_command), the group search handler, and the        *)
(* handlers of /start, /ban, /unban, /broadcast and /clearindex.           *)
(*                                                                         *)
(* Text is modelled as a sequence of one-character strings, so that        *)
(* lower-casing, the \w+ token extraction and the joins are computed.      *)
(***************************************************************************)
EXTENDS Integers, Sequences, FiniteSets, TLC

VARIABLES
  media,      \* db.media: the collection, a sequence of documents in insertion order
  now,        \* logical time of datetime.utcnow(): the number of upserts applied so far
  users,      \* db.users: user_id -> "absent", "active" (banned: False) or "banned"
  settings,   \* db.settings: channel_id -> message_id of last_indexed_<channel_id> (0: no document)
  confirm,    \* /clearindex all: "none", or "asked" while client.listen waits for the reply
  bc,         \* /broadcast: the await point, the cursor and the counts of the running handler
  last,       \* what the last store-level call or message handler did
  pc,         \* per /index command: the await point the handler is suspended at
  batch,      \* per /index command: target_channels
  idx,        \* per /index command: loop index i of index_command (1-based, 0 before the loop)
  chan,       \* index_channel: channel_id (0 while unbound)
  counters,   \* index_channel: processed_count, skipped_count, failed_count, total_messages_scanned
  pos,        \* index_channel: how many messages the history iterator has delivered
  cur,        \* index_channel: msg, the message of the current loop iteration (NoMsg outside)
  wait,       \* index_channel: fw.value of the FloodWait being handled (0 if none)
  hist,       \* transport: the message history of every channel
  faults,     \* transport and store: how many calls have raised so far
  slept,      \* per /index command: the argument of the last completed asyncio.sleep (0 if none)
  obs         \* per /index command: what the owner and the batch have observed

storeVars == <<media, now, users, settings, confirm, bc, last>>
scanVars  == <<pc, batch, idx, chan, counters, pos, cur, wait, slept, obs>>
envVars   == <<hist, faults>>
vars      == <<media, now, users, settings, confirm, bc, last, pc, batch, idx, chan, counters, pos, cur, wait, hist, faults, slept, obs>>

----------------------------------------------------------------------------
(* Bounds of the model. *)

\* add_media / search_media calls made directly in SpecStore
MaxOps == 2
\* length of a query text
MaxQLen == 3
\* largest max_results asked for
MaxLimit == 2
\* how many transport or store calls may raise in one run
MaxFaults == 2
\* largest fw.value a FloodWait carries
MaxWait == 1
\* channels named in one /index command
MaxBatch == 2

----------------------------------------------------------------------------
(* Text: Python str modelled as a sequence of characters. *)

None == <<"<None>">>

UpperCase == <<"A","B","C","D","E","F","G","H","I","J","K","L","M",
               "N","O","P","Q","R","S","T","U","V","W","X","Y","Z">>
LowerCase == <<"a","b","c","d","e","f","g","h","i","j","k","l","m",
               "n","o","p","q","r","s","t","u","v","w","x","y","z">>
Digits    == <<"0","1","2","3","4","5","6","7","8","9">>

Range(s) == {s[i] : i \in 1..Len(s)}

UpperSet == Range(UpperCase)

\* the regular-expression class \w: letters, digits and the underscore
WordChars == Range(UpperCase) \cup Range(LowerCase) \cup Range(Digits) \cup {"_"}

\* str.lower() on one character
Lower(c) ==
  IF c \in UpperSet
  THEN LowerCase[CHOOSE i \in 1..Len(UpperCase) : UpperCase[i] = c]
  ELSE c

\* str.lower()
StrLower(s) == [i \in 1..Len(s) |-> Lower(s[i])]

IsWordChar(c) == c \in WordChars

\* re.findall(r'\w+', s): the maximal runs of word characters, left to right
RECURSIVE FindWords(_, _, _)
FindWords(s, i, run) ==
  IF i > Len(s)
  THEN (IF run = <<>> THEN <<>> ELSE <<run>>)
  ELSE IF IsWordChar(s[i])
       THEN FindWords(s, i + 1, Append(run, s[i]))
       ELSE (IF run = <<>> THEN <<>> ELSE <<run>>) \o FindWords(s, i + 1, <<>>)

\* ' '.join(tokens)
RECURSIVE JoinSpace(_)
JoinSpace(tokens) ==
  IF tokens = <<>> THEN <<>>
  ELSE IF Len(tokens) = 1 THEN tokens[1]
  ELSE tokens[1] \o <<" ">> \o JoinSpace(Tail(tokens))

\* ' '.join(re.findall(r'\w+', text.lower()))
CleanText(text) == JoinSpace(FindWords(StrLower(text), 1, <<>>))

\* (x or ""): None and the empty string both give the empty string
OrEmpty(x) == IF x = None THEN <<>> ELSE x

\* str(n) for the small numbers of the model
Str(n) == IF n < 10 THEN <<Digits[n + 1]>> ELSE <<Digits[(n \div 10) + 1], Digits[(n % 10) + 1]>>

\* all sequences over S of length at most n
RECURSIVE SeqsUpTo(_, _)
SeqsUpTo(S, n) ==
  IF n = 0 THEN {<<>>}
  ELSE LET shorter == SeqsUpTo(S, n - 1)
       IN  shorter \cup {Append(s, c) : s \in {t \in shorter : Len(t) = n - 1}, c \in S}

----------------------------------------------------------------------------
(* database.py: the media collection. *)

Min(a, b) == IF a <= b THEN a ELSE b

Take(s, n) == SubSeq(s, 1, Min(n, Len(s)))

\* the indexes of the documents of coll that match {channel_id, message_id}
Matching(coll, channel_id, message_id) ==
  {i \in 1..Len(coll) : coll[i].channel_id = channel_id /\ coll[i].message_id = message_id}

\* add_media, lines 62-75: the document written
MediaData(t, channel_id, message_id, file_id, file_name, caption, file_type, file_size) ==
  [channel_id  |-> channel_id,
   message_id  |-> message_id,
   file_id     |-> file_id,
   file_name   |-> file_name,
   caption     |-> caption,
   file_type   |-> file_type,
   file_size   |-> file_size,
   search_tags |-> CleanText(OrEmpty(file_name) \o <<" ">> \o OrEmpty(caption)),
   indexed_at  |-> t]

\* variant: insert_one: the document is always inserted
InsertOne(coll, channel_id, message_id, doc) == Append(coll, doc)

\* variant: search_tags under $setOnInsert: an update keeps the old search_tags
UpdateOneKeepTags(coll, channel_id, message_id, doc) ==
  LET hit == Matching(coll, channel_id, message_id)
  IN  IF hit = {}
      THEN Append(coll, doc)
      ELSE LET i == CHOOSE i \in hit : \A j \in hit : i <= j
           IN  [coll EXCEPT ![i] = [doc EXCEPT !.search_tags = coll[i].search_tags]]

\* variant: the filter is {'message_id': message_id} alone
UpdateOneByMessageId(coll, channel_id, message_id, doc) ==
  LET hit == {i \in 1..Len(coll) : coll[i].message_id = message_id}
  IN  IF hit = {}
      THEN Append(coll, doc)
      ELSE [coll EXCEPT ![CHOOSE i \in hit : \A j \in hit : i <= j] = doc]

\* variant: delete_many({'channel_id': channel_id}) and insert_one: the document
\* takes the place of the channel's records
ReplaceChannel(coll, channel_id, message_id, doc) ==
  Append(SelectSeq(coll, LAMBDA d : d.channel_id # channel_id), doc)

\* collection.update_one(filter, {'$set': doc}, upsert=True): the first document
\* matching the filter gets the fields of doc; with no match doc is inserted
UpdateOneUpsert(coll, channel_id, message_id, doc) ==
  LET hit == Matching(coll, channel_id, message_id)
  IN  IF hit = {}
      THEN Append(coll, doc)
      ELSE [coll EXCEPT ![CHOOSE i \in hit : \A j \in hit : i <= j] = doc]

\* add_media: the collection after a successful call at time t
AddMedia(coll, t, channel_id, message_id, file_id, file_name, caption, file_type, file_size) ==
  UpdateOneUpsert(coll, channel_id, message_id,
    MediaData(t, channel_id, message_id, file_id, file_name, caption, file_type, file_size))

\* the terms of a cleaned text: it holds word characters and single spaces only
Terms(cleaned) == Range(FindWords(cleaned, 1, <<>>))

\* {'$text': {'$search': q}}: a document matches when it holds one of the terms of q
TextMatches(doc, cleaned_query) == Terms(doc.search_tags) \cap Terms(cleaned_query) # {}

\* {'$meta': 'textScore'}: the more terms of the query a document holds, the higher
TextScore(doc, cleaned_query) == Cardinality(Terms(doc.search_tags) \cap Terms(cleaned_query))

\* variant: ('message_id', 1): the older message first
SortsBeforeOldestFirst(a, b, cleaned_query) ==
  \/ TextScore(a, cleaned_query) > TextScore(b, cleaned_query)
  \/ /\ TextScore(a, cleaned_query) = TextScore(b, cleaned_query)
     /\ a.message_id < b.message_id

\* sort([('score', {'$meta': 'textScore'}), ('message_id', -1)]): a comes before b
SortsBefore(a, b, cleaned_query) ==
  \/ TextScore(a, cleaned_query) > TextScore(b, cleaned_query)
  \/ /\ TextScore(a, cleaned_query) = TextScore(b, cleaned_query)
     /\ a.message_id > b.message_id

\* the documents of coll at the indexes I, sorted (documents that tie on both keys
\* come in an order the store picks)
RECURSIVE SortDocs(_, _, _)
SortDocs(coll, I, cleaned_query) ==
  IF I = {} THEN <<>>
  ELSE LET i == CHOOSE i \in I : \A j \in I : ~SortsBefore(coll[j], coll[i], cleaned_query)
       IN  <<coll[i]>> \o SortDocs(coll, I \ {i}, cleaned_query)

\* search_media, lines 91-105: find(...).sort(...).limit(max_results), to_list(max_results)
FindSorted(coll, cleaned_query, max_results) ==
  Take(SortDocs(coll, {i \in 1..Len(coll) : TextMatches(coll[i], cleaned_query)}, cleaned_query),
       max_results)

\* variant: no test of the cleaned query: the store is always queried
SearchMediaUnguarded(coll, query, max_results) ==
  [queried |-> TRUE, rows |-> FindSorted(coll, CleanText(query), max_results)]

\* search_media: whether the store is queried, and the rows returned when it answers
SearchMedia(coll, query, max_results) ==
  LET cleaned_query == CleanText(query)
  IN  IF cleaned_query = <<>>
      THEN [queried |-> FALSE, rows |-> <<>>]
      ELSE [queried |-> TRUE, rows |-> FindSorted(coll, cleaned_query, max_results)]

----------------------------------------------------------------------------
(* config.py *)

\* cfg.OWNER_ID
OWNER_ID == 1

\* cfg.REQUEST_MOVIE_URL is None unless the environment sets it
REQUEST_MOVIE_URL == None

\* cfg.MAX_RESULTS
MAX_RESULTS == 5

----------------------------------------------------------------------------
(* The inputs of the store-level specification. *)

UserIds == {OWNER_ID, 2, 3}

\* target_chat.id of the channels the transport knows
ChannelIds == {-1001, -1002}

MessageIds == {1, 2}

QueryChars == {"a", "B", " ", "."}

Queries == SeqsUpTo(QueryChars, MaxQLen)

Limits == 1..MaxLimit

\* group messages: long enough to be searched for, with and without blanks around,
\* punctuation only, blanks only
GroupTexts ==
  { <<"a", " ", "B">>, <<" ", "a", " ">>, <<"B", ".", "a">>, <<".", ".", ".">>,
    <<" ", " ", " ">>, <<"a", "a", "B">> }

\* file_name, caption, file_size as a caller of add_media may pass them
StoreContents ==
  { [file_name |-> <<"A", ".", "b">>, caption |-> None,    file_size |-> 1],
    [file_name |-> <<"A", ".", "b">>, caption |-> None,    file_size |-> 2],
    [file_name |-> None,              caption |-> <<"B">>, file_size |-> 1] }

\* A call and what it gave: doc is the document add_media wrote and old the
\* documents it found under the key; rows are the results of a search; reply and
\* shown are what the group handler sent, and fault the call of the handler that
\* raised into its outer except clause.
NoCall == [op |-> "none", raised |-> FALSE, queried |-> FALSE, query |-> <<>>, limit |-> 0,
           rows |-> <<>>, doc |-> <<>>, old |-> <<>>, reply |-> "none", shown |-> <<>>,
           user |-> 0, fault |-> "none"]

----------------------------------------------------------------------------
(* database.py: calls made on the store. *)

\* await db.add_media(...): the upsert is applied, or the driver raises and the
\* collection is as it was
StoreAddMedia ==
  /\ last.op = "none"
  /\ now < MaxOps
  /\ \E c \in ChannelIds, m \in MessageIds, x \in StoreContents, ok \in BOOLEAN :
       LET doc == MediaData(now + 1, c, m, 100 + m, x.file_name, x.caption, "document", x.file_size)
       IN  /\ now' = IF ok THEN now + 1 ELSE now
           /\ media' = IF ok
                       THEN AddMedia(media, now + 1, c, m, 100 + m, x.file_name, x.caption,
                                     "document", x.file_size)
                       ELSE media
           /\ last' = [NoCall EXCEPT !.op = "add_media", !.raised = ~ok, !.doc = doc,
                                      !.old = SelectSeq(media, LAMBDA d : d.channel_id = c
                                                                    /\ d.message_id = m)]
  /\ UNCHANGED <<users, settings, confirm, bc, scanVars, envVars>>

\* await db.search_media(query, max_results): the rows, or the driver's exception
StoreSearch ==
  /\ last.op = "none"
  /\ \E q \in Queries, k \in Limits, ok \in BOOLEAN :
       LET r == SearchMedia(media, q, k)
       IN  /\ ~r.queried => ok
           /\ last' = [NoCall EXCEPT !.op = "search_media", !.query = q, !.limit = k,
                                  !.queried = r.queried,
                                  !.raised = r.queried /\ ~ok,
                                  !.rows = IF r.queried /\ ~ok THEN <<>> ELSE r.rows]
  /\ UNCHANGED <<media, now, users, settings, confirm, bc, scanVars, envVars>>

----------------------------------------------------------------------------
(* main.py: group_filter_handler. *)

IsSpace(c) == c \in {" ", "\t", "\n"}

\* str.strip()
RECURSIVE Strip(_)
Strip(s) ==
  IF s = <<>> THEN s
  ELSE IF IsSpace(s[1]) THEN Strip(Tail(s))
  ELSE IF IsSpace(s[Len(s)]) THEN Strip(SubSeq(s, 1, Len(s) - 1))
  ELSE s

\* str.isdigit()
IsDigit(s) == s # <<>> /\ \A i \in 1..Len(s) : s[i] \in Range(Digits)

\* line 835: the messages the handler does not search for
TooShort(query) == Len(query) < 3 \/ IsDigit(query)

\* lines 869-886: one row per item, in the order of results
ResultRows(results) == [i \in 1..Len(results) |-> <<results[i].channel_id, results[i].message_id>>]

\* variant: the rows read before the failure are sent as the results
OnSearchErrorPartial(call, r) ==
  [call EXCEPT !.queried = TRUE, !.rows = Take(r.rows, Len(r.rows) - 1), !.reply = "results",
               !.shown = ResultRows(Take(r.rows, Len(r.rows) - 1))]

\* lines 843 and 918-925: the exception of search_media leaves the try body before
\* results is bound; the except clause sends the apology and nothing else
OnSearchError(call, r) == [call EXCEPT !.queried = TRUE, !.reply = "internal_error"]

\* config.py 22: the updates channel is configured
UPDATES_CHANNEL == <<"u">>

\* main.py 33-35: is_admin
IsAdmin(user_id) == user_id = OWNER_ID

\* what get_chat_member(UPDATES_CHANNEL, user_id) may give: a member of some
\* status, or UserNotParticipant, PeerIdInvalid, ChannelPrivate, another RPCError,
\* another exception
Memberships ==
  {"member", "left", "banned", "not_participant", "peer_invalid", "channel_private",
   "rpc_error", "error"}

\* the answers after which check_force_sub goes on to the join prompt, lines 130-135
NonMember == {"left", "banned", "not_participant"}

\* what get_chat(UPDATES_CHANNEL) may give: the channel with or without an invite
\* link and a username, or an exception
ChannelInfos ==
  {[raised |-> r, invite_link |-> i, username |-> n] :
     r \in BOOLEAN, i \in {None, <<"i">>}, n \in {None, <<"n">>}}
    \ {c \in [raised : {TRUE}, invite_link : {None, <<"i">>}, username : {None, <<"n">>}] :
          c.invite_link # None \/ c.username # None}

\* line 156: channel.invite_link or f"https://t.me/{channel.username}" if
\* channel.username else None. The conditional expression binds weaker than or:
\* without a username the link is None, whatever the invite link
ChannelLink(channel) ==
  IF channel.username # None
  THEN IF channel.invite_link # None THEN channel.invite_link
       ELSE <<"t", ".", "m", "e", "/">> \o channel.username
  ELSE None

\* main.py 119-175: check_force_sub for a message of user_id. member and channel
\* are the transport's answers when they are asked for, sent whether the reply
\* with the join prompt goes out.
CheckForceSub(user_id, member, channel, sent) ==
  LET pass == [passes |-> TRUE, link |-> None, prompted |-> FALSE]
  IN  IF UPDATES_CHANNEL = None THEN pass
      ELSE IF IsAdmin(user_id) THEN pass
      ELSE IF member \notin NonMember THEN pass
      ELSE IF channel.raised THEN pass
      ELSE IF ChannelLink(channel) = None THEN pass
      ELSE IF ~sent THEN [pass EXCEPT !.link = ChannelLink(channel)]
      ELSE [passes |-> FALSE, link |-> ChannelLink(channel), prompted |-> TRUE]

\* the answers check_force_sub may give for a message of user_id
ForceSubAnswers ==
  [user_id \in UserIds |->
     {CheckForceSub(user_id, m, c, s).passes :
        m \in Memberships, c \in ChannelInfos, s \in BOOLEAN}]

\* await check_force_sub(message), with what the transport answers
ForceSubCheck ==
  /\ last.op = "none"
  /\ \E u \in UserIds, member \in Memberships, channel \in ChannelInfos, sent \in BOOLEAN :
       LET r == CheckForceSub(u, member, channel, sent)
       IN  last' = [op |-> "check_force_sub", user |-> u, member |-> member,
                    channel |-> channel, sent |-> sent, passes |-> r.passes,
                    link |-> r.link, prompted |-> r.prompted]
  /\ UNCHANGED <<media, now, users, settings, confirm, bc, scanVars, envVars>>

\* variant: the ban flag is not read
IsUserBannedNever(us, user_id) == FALSE

\* database.py 38-40: is_user_banned
IsUserBanned(us, user_id) == us[user_id] = "banned"

\* variant: the search consumes the collection
AfterFindDropped(coll, query) == <<>>

\* database.py 91-101: find, sort, limit and to_list read the media collection;
\* the collection the search leaves
AfterFind(coll, query) == coll

\* The handler, from the message to its last reply. u = 0 is a message without
\* from_user; passes is the answer of check_force_sub; fail names the call that raises.
GroupFilter ==
  /\ last.op = "none"
  /\ \E u \in UserIds \cup {0}, text \in GroupTexts, passes \in BOOLEAN,
        fail \in {"none", "is_user_banned", "search_media", "reply_text", "add_user"} :
       /\ u # 0 => passes \in ForceSubAnswers[u]
       /\ LET query == Strip(text)
              r     == SearchMedia(media, query, MAX_RESULTS)
              call  == [NoCall EXCEPT !.op = "group_filter", !.user = u, !.query = query,
                                      !.limit = MAX_RESULTS]
          IN  IF u = 0 THEN
                /\ last' = call
                /\ users' = users
              ELSE IF fail = "is_user_banned" THEN
                /\ last' = [call EXCEPT !.raised = TRUE]
                /\ users' = users
              ELSE IF IsUserBanned(users, u) THEN
                /\ last' = call
                /\ users' = users
              ELSE IF ~passes THEN
                /\ last' = [call EXCEPT !.reply = "join_prompt"]
                /\ users' = users
              ELSE IF TooShort(query) THEN
                /\ last' = call
                /\ users' = users
              ELSE IF r.queried /\ fail = "search_media" THEN
                /\ last' = OnSearchError([call EXCEPT !.fault = "search_media"], r)
                /\ users' = users
              ELSE IF r.rows = <<>> THEN
                /\ last' = [call EXCEPT !.queried = r.queried,
                                        !.reply = IF REQUEST_MOVIE_URL # None THEN "not_found" ELSE "none"]
                /\ users' = users
              ELSE IF fail = "reply_text" THEN
                /\ last' = [call EXCEPT !.queried = r.queried, !.rows = r.rows,
                                        !.reply = "send_error"]
                /\ users' = users
              ELSE IF fail = "add_user" THEN
                /\ last' = [call EXCEPT !.queried = r.queried, !.rows = r.rows,
                                        !.reply = "results_then_apology",
                                        !.shown = ResultRows(r.rows)]
                /\ users' = users
              ELSE
                /\ last' = [call EXCEPT !.queried = r.queried, !.rows = r.rows,
                                        !.reply = "results", !.shown = ResultRows(r.rows)]
                /\ users' = [users EXCEPT ![u] = "active"]
  /\ media' = IF last'.queried THEN AfterFind(media, last'.query) ELSE media
  /\ UNCHANGED <<now, settings, confirm, bc, scanVars, envVars>>

\* the caller of the last call resumes with what the call returned
Resume ==
  /\ last.op # "none"
  /\ last' = NoCall
  /\ UNCHANGED <<media, now, users, settings, confirm, bc, scanVars, envVars>>

----------------------------------------------------------------------------
(* database.py: the two places that turn text into search terms. *)

\* length of a file name or a query handed to the two sides
MaxTextLen == 3

\* letters in both cases, the underscore, punctuation and blank
TextChars == {"a", "A", "_", ".", " "}

Texts == SeqsUpTo(TextChars, MaxTextLen)

\* line 62: search_text, the text add_media extracts the words of
SearchText(file_name, caption) == OrEmpty(file_name) \o <<" ">> \o OrEmpty(caption)

\* line 85: query.lower() is an attribute lookup on query; None has no lower
QueryRaises(query) == query = None

\* variant: ''.join: the words are joined without a separator
CleanedQueryGlued(query) == SelectSeq(CleanText(query), LAMBDA c : c # " ")

\* line 85: cleaned_query of a query that is a str
CleanedQuery(query) == CleanText(query)

\* add_media building search_tags for (file_name, caption), and search_media
\* cleaning query: both computed by the code of their side
Normalize ==
  /\ last.op = "none"
  /\ \E file_name \in Texts \cup {None}, caption \in {None, <<"A">>}, query \in Texts \cup {None} :
       last' = [op        |-> "normalize",
                file_name |-> file_name,
                caption   |-> caption,
                query     |-> query,
                tags      |-> MediaData(0, -1001, 1, 101, file_name, caption, "document", 1).search_tags,
                raised    |-> QueryRaises(query),
                cleaned   |-> IF QueryRaises(query) THEN <<>> ELSE CleanedQuery(query)]
  /\ UNCHANGED <<media, now, users, settings, confirm, bc, scanVars, envVars>>

----------------------------------------------------------------------------
(* main.py: get_media_link. *)

\* A channel identity as the store holds it: a Python int or a Python str
IntId(n) == [type |-> "int", value |-> n]

StrId(s) == [type |-> "str", value |-> s]

\* str(n) of a natural number
RECURSIVE NatStr(_)
NatStr(n) == IF n < 10 THEN <<Digits[n + 1]>> ELSE NatStr(n \div 10) \o <<Digits[(n % 10) + 1]>>

\* abs(n)
Abs(n) == IF n < 0 THEN 0 - n ELSE n

\* str(n) of an int
IntStr(n) == IF n < 0 THEN <<"-">> \o NatStr(0 - n) ELSE NatStr(n)

\* str(channel_id)
StrOf(channel_id) == IF channel_id.type = "int" THEN IntStr(channel_id.value) ELSE channel_id.value

\* s.startswith(prefix)
StartsWith(s, prefix) == Len(s) >= Len(prefix) /\ SubSeq(s, 1, Len(prefix)) = prefix

\* s.replace(old, new): every occurrence of old, from the left, for a non-empty old
RECURSIVE Replace(_, _, _)
Replace(s, old, new) ==
  IF s = <<>> THEN <<>>
  ELSE IF StartsWith(s, old) THEN new \o Replace(SubSeq(s, Len(old) + 1, Len(s)), old, new)
  ELSE <<s[1]>> \o Replace(Tail(s), old, new)

\* f"{x}" of a str or of None
Format(x) == IF x = None THEN <<"N", "o", "n", "e">> ELSE x

\* line 75
LinkBase == <<"h", "t", "t", "p", "s", ":", "/", "/", "t", ".", "m", "e", "/">>

Minus100 == <<"-", "1", "0", "0">>

\* line 76: an int whose decimal form starts with -100
IsPrivateId(channel_id) == channel_id.type = "int" /\ StartsWith(StrOf(channel_id), Minus100)

\* line 78: a str that starts with @
IsHandle(channel_id) == channel_id.type = "str" /\ StartsWith(channel_id.value, <<"@">>)

\* variant: abs(channel_id), as on lines 96 and 99
PrivatePathAbs(channel_id, message_id) ==
  <<"c", "/">> \o NatStr(Abs(channel_id.value)) \o <<"/">> \o IntStr(message_id)

\* line 77: c/<str(channel_id) without -100>/<message_id>
PrivatePath(channel_id, message_id) ==
  <<"c", "/">> \o Replace(StrOf(channel_id), Minus100, <<>>) \o <<"/">> \o IntStr(message_id)

\* lines 81 and 94: <chat.username>/<message_id>
UsernamePath(username, message_id) == Format(username) \o <<"/">> \o IntStr(message_id)

\* line 84: <channel_id without @>/<message_id>
HandlePath(channel_id, message_id) ==
  Replace(channel_id.value, <<"@">>, <<>>) \o <<"/">> \o IntStr(message_id)

\* what app.get_chat(channel_id) may do: raise, or answer with a chat that has
\* no username (None) or has one: the handle it was asked by, or ab for an id
ChatAnswers(channel_id) ==
  { [raises |-> TRUE,  username |-> None],
    [raises |-> FALSE, username |-> None],
    [raises |-> FALSE,
     username |-> IF channel_id.type = "str" /\ StartsWith(channel_id.value, <<"@">>)
                  THEN Tail(channel_id.value) ELSE <<"a", "b">>] }

NoAnswer == [raises |-> FALSE, username |-> None]

\* get_media_link: whether get_chat was called, whether an exception left the
\* function, and the link returned. abs() of a str is a TypeError: raised on line
\* 96 it is caught on line 97, raised on line 99 it leaves the function.
GetMediaLink(channel_id, message_id, answer) ==
  IF IsPrivateId(channel_id) THEN
    [asked |-> FALSE, raised |-> FALSE, link |-> LinkBase \o PrivatePath(channel_id, message_id)]
  ELSE IF IsHandle(channel_id) THEN
    [asked |-> TRUE, raised |-> FALSE,
     link |-> LinkBase \o (IF answer.raises THEN HandlePath(channel_id, message_id)
                           ELSE UsernamePath(answer.username, message_id))]
  ELSE IF ~answer.raises /\ answer.username \notin {None, <<>>} THEN
    [asked |-> TRUE, raised |-> FALSE, link |-> LinkBase \o UsernamePath(answer.username, message_id)]
  ELSE IF channel_id.type = "int" THEN
    [asked |-> TRUE, raised |-> FALSE,
     link |-> LinkBase \o <<"c", "/">> \o NatStr(Abs(channel_id.value)) \o <<"/">> \o IntStr(message_id)]
  ELSE
    [asked |-> TRUE, raised |-> TRUE, link |-> <<>>]

\* the identities and message ids get_media_link is called with
LinkChannels ==
  { IntId(-1001234), IntId(-1001), IntId(-1002), IntId(-100), IntId(-1000100),
    IntId(12345), IntId(-5), IntId(0), IntId(7),
    StrId(<<"@", "a", "b">>), StrId(<<"@", "A", "b">>), StrId(<<"@", "a">>),
    StrId(<<"a", "b">>), StrId(<<"1", "2">>) }

LinkMessageIds == {1, 7, 42, 100}

\* await get_media_link(channel_id, message_id), with what the transport answers
\* when it is asked
BuildLink ==
  /\ last.op = "none"
  /\ \E channel_id \in LinkChannels, message_id \in LinkMessageIds :
     \E answer \in ChatAnswers(channel_id) :
       LET r == GetMediaLink(channel_id, message_id, answer)
       IN  /\ ~r.asked => answer = NoAnswer
           /\ last' = [op |-> "get_media_link", channel_id |-> channel_id,
                       message_id |-> message_id, asked |-> r.asked,
                       answer |-> answer, raised |-> r.raised, link |-> r.link]
  /\ UNCHANGED <<media, now, users, settings, confirm, bc, scanVars, envVars>>

----------------------------------------------------------------------------
(* The chat transport: channels, messages and histories. *)

\* the /index commands the model runs
Procs == {1, 2}

\* what the owner may name in /index or INDEX_CHANNELS; the transport resolves
\* target t to the chat with id ChatId(t)
Targets == {1, 2}

ChatId(t) == -1000 - t

Msg(id, kind, file_name, mime_type, caption, bold, file_size) ==
  [id |-> id, kind |-> kind, file_id |-> 100 + id, file_name |-> file_name,
   mime_type |-> mime_type, caption |-> caption, bold |-> bold, file_size |-> file_size]

NoMsg == Msg(0, "none", None, None, None, FALSE, 0)

MimeMp4 == <<"v", "i", "d", "e", "o", "/", "m", "p", "4">>

\* the example of the specification: [text, video, photo, document]
HistExample ==
  << Msg(4, "text", None, None, None, FALSE, 0),
     Msg(3, "video", <<"A", ".", "b">>, MimeMp4, <<"a", " ", "B">>, FALSE, 2),
     Msg(2, "photo", None, <<>>, <<"a">>, FALSE, 1),
     Msg(1, "document", <<"b", "_", "1">>, <<>>, None, FALSE, 1) >>

\* attachments without a file name: with a mime type, with an empty one, with none
HistUnnamed ==
  << Msg(3, "video", None, MimeMp4, <<"a", "<", "b">>, TRUE, 2),
     Msg(2, "document", None, <<>>, None, FALSE, 0),
     Msg(1, "audio", None, None, None, FALSE, 1) >>

HistMedia ==
  << Msg(2, "audio", <<"a">>, <<>>, None, FALSE, 1),
     Msg(1, "video", <<"B">>, MimeMp4, None, FALSE, 2) >>

Histories == {<<>>, HistExample, HistUnnamed, HistMedia}

\* an attachment, and below it in the history a text message
HistAnnounced ==
  << Msg(2, "video", <<"a">>, MimeMp4, None, FALSE, 2),
     Msg(1, "text", None, None, None, FALSE, 0) >>

\* variant: msg.video or msg.document or msg.audio or msg.photo
HasMediaOrPhoto(msg) == msg.kind \in {"video", "document", "audio", "photo"}

\* msg.video or msg.document or msg.audio
HasMedia(msg) == msg.kind \in {"video", "document", "audio"}

\* msg.media.value
KindChars(kind) ==
  CASE kind = "video"    -> <<"v", "i", "d", "e", "o">>
    [] kind = "document" -> <<"d", "o", "c", "u", "m", "e", "n", "t">>
    [] kind = "audio"    -> <<"a", "u", "d", "i", "o">>
    [] OTHER             -> <<"u", "n", "k", "n", "o", "w", "n">>

\* s.split('/')[-1]
RECURSIVE AfterLastSlash(_)
AfterLastSlash(s) ==
  IF \E i \in 1..Len(s) : s[i] = "/"
  THEN AfterLastSlash(SubSeq(s, (CHOOSE i \in 1..Len(s) : s[i] = "/") + 1, Len(s)))
  ELSE s

\* html.escape of one character
Escape(c) ==
  CASE c = "&" -> <<"&", "a", "m", "p", ";">>
    [] c = "<" -> <<"&", "l", "t", ";">>
    [] c = ">" -> <<"&", "g", "t", ";">>
    [] OTHER   -> <<c>>

RECURSIVE EscapeAll(_)
EscapeAll(s) == IF s = <<>> THEN <<>> ELSE Escape(s[1]) \o EscapeAll(Tail(s))

\* caption.html: the text escaped, inside the tags of its entities (bold: the
\* whole caption is bold)
Html(caption, bold) ==
  IF bold THEN <<"<", "b", ">">> \o EscapeAll(caption) \o <<"<", "/", "b", ">">>
  ELSE EscapeAll(caption)

\* lines 616-619: mime_type None has no split
RaisesOnExtract(msg) == msg.file_name \in {None, <<>>} /\ msg.mime_type = None

\* lines 611-619: the file name stored
FileNameOf(msg) ==
  IF msg.file_name \notin {None, <<>>} THEN msg.file_name
  ELSE LET tail == AfterLastSlash(msg.mime_type)
           ext  == IF tail = <<>> THEN <<"f", "i", "l", "e">> ELSE tail
       IN  KindChars(msg.kind) \o <<"_">> \o Str(msg.id) \o <<".">> \o ext

\* lines 612 and 638: the caption stored
CaptionOf(msg) ==
  IF msg.caption \in {None, <<>>} THEN None ELSE Html(msg.caption, msg.bold)

----------------------------------------------------------------------------
(* main.py: index_channel and index_command. Every await is a step. *)

\* line 652: a progress report every 200 scanned messages; the model's histories
\* are short, and the period is scaled down to them
ProgressEvery == 2

\* sleeps, in tenths of a second: lines 664, 742 and the margin of lines 667, 674
ProgressSleep == 15
Cooldown == 50
FloodMargin == 50

\* what a transport call may do: answer, or raise FloodWait, ChannelPrivate /
\* PeerIdInvalid, or any other exception
Outcomes == {"ok", "flood", "access", "error"}

ZeroCounters == [processed |-> 0, skipped |-> 0, failed |-> 0, total |-> 0]

NoSummary == [processed |-> -1, skipped |-> -1, failed |-> -1, total |-> -1]

\* What one /index command has shown so far. calls: the targets index_channel was
\* called with; results: how each call ended (DONE: the finished summary went out,
\* FAILED: it returned early, RAISED: an exception left it); tried / sent: the
\* messages of the current call that were issued / delivered; cause: why the
\* current call left its loop; summary: the counts of final_status.
NoObs == [calls |-> <<>>, results |-> <<>>, tried |-> {}, sent |-> {}, cause |-> "none",
          summary |-> NoSummary, completed |-> FALSE]

Tried(o, tag) == [o EXCEPT !.tried = @ \cup {tag}]

Sent(o, tag) == [o EXCEPT !.tried = @ \cup {tag}, !.sent = @ \cup {tag}]

Ended(o, result) == [o EXCEPT !.results = Append(@, result)]

\* a call raises only while the run's budget of failures lasts
Fault(o) ==
  /\ o # "ok" => faults < MaxFaults
  /\ faults' = IF o = "ok" THEN faults ELSE faults + 1

\* variant: the pause is announced after the last channel too
AfterScanAlwaysPause(i, n) == "cmd_next_reply"

\* lines 738-744: where index_command goes when index_channel returns
AfterScan(i, n) == IF i < n THEN "cmd_next_reply" ELSE "cmd_done_reply"

\* variant: every RPC error is handled as a FloodWait
HandlerPcAllFlood(exc, channel_id) ==
  CASE exc \in {"flood", "access"} -> IF channel_id = 0 THEN "crashed" ELSE "ic_flood_edit"
    [] OTHER                       -> "ic_error_edit"

\* lines 673-691: the except clause an exception raised in the try body lands in.
\* The FloodWait and access clauses format channel_name first, which is unbound
\* when get_chat has not answered: the UnboundLocalError leaves index_channel.
HandlerPc(exc, channel_id) ==
  CASE exc = "flood"  -> IF channel_id = 0 THEN "crashed" ELSE "ic_flood_edit"
    [] exc = "access" -> IF channel_id = 0 THEN "crashed" ELSE "ic_access_edit"
    [] OTHER          -> "ic_error_edit"

\* an exception raised in the try body by the call that was sending tag
RaiseInTry(p, exc, w, tag) ==
  LET to == HandlerPc(exc, chan[p])
  IN  /\ pc' = [pc EXCEPT ![p] = to]
      /\ wait' = [wait EXCEPT ![p] = IF to = "ic_flood_edit" THEN w ELSE @]
      /\ obs' = [obs EXCEPT ![p] = IF to = "crashed" THEN Ended(Tried(@, tag), "RAISED")
                                   ELSE Tried(@, tag)]

\* an exception that nothing in index_channel catches
RaiseOut(p, tag) ==
  /\ pc' = [pc EXCEPT ![p] = "crashed"]
  /\ obs' = [obs EXCEPT ![p] = Ended(Tried(@, tag), "RAISED")]

\* index_channel returns
Return(p, tag, result) ==
  /\ pc' = [pc EXCEPT ![p] = AfterScan(idx[p], Len(batch[p]))]
  /\ obs' = [obs EXCEPT ![p] = Ended(Sent(@, tag), result)]

\* line 735: the "initiated" reply, then the first index_channel call
CmdInitReply(p) ==
  /\ pc[p] = "cmd_init_reply"
  /\ \E o \in Outcomes :
       /\ Fault(o)
       /\ IF o = "ok"
          THEN /\ pc' = [pc EXCEPT ![p] = "ic_status"]
               /\ idx' = [idx EXCEPT ![p] = 1]
               /\ obs' = [obs EXCEPT ![p].calls = Append(@, batch[p][1])]
          ELSE /\ pc' = [pc EXCEPT ![p] = "crashed"]
               /\ UNCHANGED <<idx, obs>>
  /\ UNCHANGED <<storeVars, batch, chan, counters, pos, cur, wait, slept, hist>>

\* line 578: the status message; it is sent before the try block
IcStatus(p) ==
  /\ pc[p] = "ic_status"
  /\ \E o \in Outcomes :
       /\ Fault(o)
       /\ IF o = "ok"
          THEN /\ pc' = [pc EXCEPT ![p] = "ic_get_chat"]
               /\ obs' = [obs EXCEPT ![p] = Sent(@, "resolving")]
          ELSE RaiseOut(p, "resolving")
  /\ UNCHANGED <<storeVars, batch, idx, chan, counters, pos, cur, wait, slept, hist>>

\* variant: the failure of get_chat is ignored
OnGetChatErrorIgnored == "ic_found_edit"

\* lines 592-593: an exception of get_chat lands in the inner except clause
OnGetChatError == "ic_resfail_edit"

\* line 587: client.get_chat(channel_target)
IcGetChat(p) ==
  /\ pc[p] = "ic_get_chat"
  /\ \E o \in Outcomes :
       /\ Fault(o)
       /\ IF o = "ok"
          THEN /\ chan' = [chan EXCEPT ![p] = ChatId(batch[p][idx[p]])]
               /\ pc' = [pc EXCEPT ![p] = "ic_found_edit"]
               /\ obs' = obs
          ELSE /\ chan' = chan
               /\ pc' = [pc EXCEPT ![p] = OnGetChatError]
               /\ obs' = [obs EXCEPT ![p].cause = "resolve"]
  /\ UNCHANGED <<storeVars, batch, idx, counters, pos, cur, wait, slept, hist>>

\* variant: the history is entered behind the channel's index marker
HistoryStartAtMarker(sett, channel_id) == sett[channel_id]

\* line 600: client.get_chat_history(channel_id) is called without offset or
\* limit, and get_last_indexed_message_id is not called: the number of messages
\* of the history that the iteration leaves out
HistoryStart(sett, channel_id) == 0

\* lines 590-591: the "found channel" edit, still inside the inner try; when it
\* went out, line 600 opens the history
IcFoundEdit(p) ==
  /\ pc[p] = "ic_found_edit"
  /\ \E o \in Outcomes :
       /\ Fault(o)
       /\ IF o = "ok"
          THEN /\ pc' = [pc EXCEPT ![p] = "ic_history"]
               /\ pos' = [pos EXCEPT ![p] = HistoryStart(settings, chan[p])]
               /\ obs' = [obs EXCEPT ![p] = Sent(@, "found")]
          ELSE /\ pc' = [pc EXCEPT ![p] = "ic_resfail_edit"]
               /\ pos' = pos
               /\ obs' = [obs EXCEPT ![p] = [Tried(@, "found") EXCEPT !.cause = "found_edit"]]
  /\ UNCHANGED <<storeVars, batch, idx, chan, counters, cur, wait, slept, hist>>

\* lines 593-595: the "could not access" edit of the inner except clause
IcResFailEdit(p) ==
  /\ pc[p] = "ic_resfail_edit"
  /\ \E o \in Outcomes, w \in 1..MaxWait :
       /\ Fault(o)
       /\ o # "flood" => w = 1
       /\ IF o = "ok"
          THEN Return(p, "resolve_error", "FAILED") /\ wait' = wait
          ELSE RaiseInTry(p, o, w, "resolve_error")
  /\ UNCHANGED <<storeVars, batch, idx, chan, counters, pos, cur, slept, hist>>

\* lines 601-607: a message without video, document or audio is skipped
CountSkipped(c) == [c EXCEPT !.total = @ + 1, !.skipped = @ + 1]

\* line 601
CountScanned(c) == [c EXCEPT !.total = @ + 1]

\* line 642
CountProcessed(c) == [c EXCEPT !.processed = @ + 1]

\* variant: a failed upsert is logged and not counted
CountFailedNot(c) == c

\* line 646
CountFailed(c) == [c EXCEPT !.failed = @ + 1]

\* after the try/except of lines 632-649: the progress report of line 652, or the
\* next message
AfterAdd(c) == IF c.total % ProgressEvery = 0 THEN "ic_progress" ELSE "ic_history"

\* variant: a failed upsert ends the scan as an unexpected error
AfterAddErrorAbort(c) == "ic_error_edit"

\* lines 644-649: the except clause counts the failure and falls out of the try
AfterAddError(c) == AfterAdd(c)

\* variant: the history is walked from its oldest message
DeliveredOldestFirst(h, n) == h[Len(h) - n]

\* line 600: async for msg in client.get_chat_history(channel_id): the message
\* that follows the n delivered ones
Delivered(h, n) == h[n + 1]

\* line 600: the next message of client.get_chat_history(channel_id), up to the
\* await of add_media (a skipped message goes straight to the next one)
IcHistory(p) ==
  /\ pc[p] = "ic_history"
  /\ \E o \in Outcomes \cup {"exhausted"}, w \in 1..MaxWait :
       /\ Fault(IF o = "exhausted" THEN "ok" ELSE o)
       /\ o # "flood" => w = 1
       /\ o = "ok" => pos[p] < Len(hist[chan[p]])
       /\ o = "exhausted" => pos[p] = Len(hist[chan[p]])
       /\ IF o = "ok" THEN
            LET msg == Delivered(hist[chan[p]], pos[p])
            IN  /\ pos' = [pos EXCEPT ![p] = @ + 1]
                /\ IF ~HasMedia(msg) THEN
                     /\ counters' = [counters EXCEPT ![p] = CountSkipped(@)]
                     /\ UNCHANGED <<pc, cur, wait, obs>>
                   ELSE IF RaisesOnExtract(msg) THEN
                     /\ counters' = [counters EXCEPT ![p] = CountScanned(@)]
                     /\ pc' = [pc EXCEPT ![p] = "ic_error_edit"]
                     /\ obs' = [obs EXCEPT ![p].cause = "error"]
                     /\ UNCHANGED <<cur, wait>>
                   ELSE
                     /\ counters' = [counters EXCEPT ![p] = CountScanned(@)]
                     /\ cur' = [cur EXCEPT ![p] = msg]
                     /\ pc' = [pc EXCEPT ![p] = "ic_add"]
                     /\ UNCHANGED <<wait, obs>>
          ELSE IF o = "exhausted" THEN
            /\ pc' = [pc EXCEPT ![p] = "ic_final_edit"]
            /\ obs' = [obs EXCEPT ![p].cause = "exhausted", ![p].summary = counters[p]]
            /\ UNCHANGED <<pos, counters, cur, wait>>
          ELSE
            /\ pc' = [pc EXCEPT ![p] = HandlerPc(o, chan[p])]
            /\ wait' = [wait EXCEPT ![p] = IF o = "flood" THEN w ELSE @]
            /\ obs' = [obs EXCEPT ![p].cause = o]
            /\ UNCHANGED <<pos, counters, cur>>
  /\ UNCHANGED <<storeVars, batch, idx, chan, slept, hist>>

\* lines 632-649: await db.add_media(...); a failure is counted and the loop goes on
IcAdd(p) ==
  /\ pc[p] = "ic_add"
  /\ \E o \in {"ok", "error"} :
       /\ Fault(o)
       /\ now' = IF o = "ok" THEN now + 1 ELSE now
       /\ IF o = "ok"
          THEN /\ media' = AddMedia(media, now + 1, chan[p], cur[p].id, cur[p].file_id,
                                    FileNameOf(cur[p]), CaptionOf(cur[p]), cur[p].kind,
                                    cur[p].file_size)
               /\ counters' = [counters EXCEPT ![p] = CountProcessed(@)]
               /\ pc' = [pc EXCEPT ![p] = AfterAdd(counters[p])]
          ELSE /\ media' = media
               /\ counters' = [counters EXCEPT ![p] = CountFailed(@)]
               /\ pc' = [pc EXCEPT ![p] = AfterAddError(counters[p])]
  /\ UNCHANGED <<users, settings, confirm, bc, last, batch, idx, chan, pos, cur, wait, slept, obs, hist>>

\* lines 653-670: the progress edit; FloodWait is slept out, any other failure ignored
IcProgress(p) ==
  /\ pc[p] = "ic_progress"
  /\ \E o \in Outcomes, w \in 1..MaxWait :
       /\ Fault(o)
       /\ o # "flood" => w = 1
       /\ pc' = [pc EXCEPT ![p] = CASE o = "ok"    -> "ic_progress_sleep"
                                    [] o = "flood" -> "ic_progress_flood_sleep"
                                    [] OTHER       -> "ic_history"]
       /\ wait' = [wait EXCEPT ![p] = IF o = "flood" THEN w ELSE @]
       /\ obs' = [obs EXCEPT ![p] = IF o = "ok" THEN Sent(@, "progress") ELSE Tried(@, "progress")]
  /\ UNCHANGED <<storeVars, batch, idx, chan, counters, pos, cur, slept, hist>>

\* line 664: asyncio.sleep(1.5)
IcProgressSleep(p) ==
  /\ pc[p] = "ic_progress_sleep"
  /\ slept' = [slept EXCEPT ![p] = ProgressSleep]
  /\ pc' = [pc EXCEPT ![p] = "ic_history"]
  /\ UNCHANGED <<storeVars, batch, idx, chan, counters, pos, cur, wait, obs, envVars>>

\* line 667: asyncio.sleep(fw.value + 5)
IcProgressFloodSleep(p) ==
  /\ pc[p] = "ic_progress_flood_sleep"
  /\ slept' = [slept EXCEPT ![p] = 10 * wait[p] + FloodMargin]
  /\ wait' = [wait EXCEPT ![p] = 0]
  /\ pc' = [pc EXCEPT ![p] = "ic_history"]
  /\ UNCHANGED <<storeVars, batch, idx, chan, counters, pos, cur, obs, envVars>>

\* lines 674-676: the FloodWait clause of the outer try tells the owner it pauses
IcFloodEdit(p) ==
  /\ pc[p] = "ic_flood_edit"
  /\ \E o \in Outcomes :
       /\ Fault(o)
       /\ IF o = "ok"
          THEN /\ pc' = [pc EXCEPT ![p] = "ic_flood_sleep"]
               /\ obs' = [obs EXCEPT ![p] = Sent(@, "flood_notice")]
          ELSE RaiseOut(p, "flood_notice")
  /\ UNCHANGED <<storeVars, batch, idx, chan, counters, pos, cur, wait, slept, hist>>

\* line 677: asyncio.sleep(wait_time)
IcFloodSleep(p) ==
  /\ pc[p] = "ic_flood_sleep"
  /\ slept' = [slept EXCEPT ![p] = 10 * wait[p] + FloodMargin]
  /\ wait' = [wait EXCEPT ![p] = 0]
  /\ pc' = [pc EXCEPT ![p] = "ic_resume_edit"]
  /\ UNCHANGED <<storeVars, batch, idx, chan, counters, pos, cur, obs, envVars>>

\* line 678: the "resuming" edit; the except clause ends here, and control falls
\* through to the finished summary of line 694: the history is not pulled again
IcResumeEdit(p) ==
  /\ pc[p] = "ic_resume_edit"
  /\ \E o \in Outcomes :
       /\ Fault(o)
       /\ IF o = "ok"
          THEN /\ pc' = [pc EXCEPT ![p] = "ic_final_edit"]
               /\ obs' = [obs EXCEPT ![p] = [Sent(@, "resuming") EXCEPT !.summary = counters[p]]]
          ELSE RaiseOut(p, "resuming")
  /\ UNCHANGED <<storeVars, batch, idx, chan, counters, pos, cur, wait, slept, hist>>

\* lines 682-685: the access-lost report, then return
IcAccessEdit(p) ==
  /\ pc[p] = "ic_access_edit"
  /\ \E o \in Outcomes :
       /\ Fault(o)
       /\ IF o = "ok" THEN Return(p, "access_error", "FAILED") ELSE RaiseOut(p, "access_error")
  /\ UNCHANGED <<storeVars, batch, idx, chan, counters, pos, cur, wait, slept, hist>>

\* lines 687-691: the unexpected-error report, then return
IcErrorEdit(p) ==
  /\ pc[p] = "ic_error_edit"
  /\ \E o \in Outcomes :
       /\ Fault(o)
       /\ IF o = "ok" THEN Return(p, "unexpected_error", "FAILED")
          ELSE RaiseOut(p, "unexpected_error")
  /\ UNCHANGED <<storeVars, batch, idx, chan, counters, pos, cur, wait, slept, hist>>

\* lines 701-702: the finished summary as an edit of the status message
IcFinalEdit(p) ==
  /\ pc[p] = "ic_final_edit"
  /\ \E o \in Outcomes :
       /\ Fault(o)
       /\ IF o = "ok" THEN Return(p, "summary", "DONE")
          ELSE /\ pc' = [pc EXCEPT ![p] = "ic_final_reply"]
               /\ obs' = [obs EXCEPT ![p] = Tried(@, "summary")]
  /\ UNCHANGED <<storeVars, batch, idx, chan, counters, pos, cur, wait, slept, hist>>

\* lines 703-706: the summary as a new message when the edit failed
IcFinalReply(p) ==
  /\ pc[p] = "ic_final_reply"
  /\ \E o \in Outcomes :
       /\ Fault(o)
       /\ IF o = "ok" THEN Return(p, "summary", "DONE") ELSE RaiseOut(p, "summary")
  /\ UNCHANGED <<storeVars, batch, idx, chan, counters, pos, cur, wait, slept, hist>>

\* line 741: the "starting next channel" reply
CmdNextReply(p) ==
  /\ pc[p] = "cmd_next_reply"
  /\ \E o \in Outcomes :
       /\ Fault(o)
       /\ pc' = [pc EXCEPT ![p] = IF o = "ok" THEN "cmd_cooldown" ELSE "crashed"]
  /\ UNCHANGED <<storeVars, batch, idx, chan, counters, pos, cur, wait, slept, obs, hist>>

\* line 742, then lines 738-739 and 579-582: asyncio.sleep(5) and the next
\* index_channel call with fresh locals
CmdCooldown(p) ==
  /\ pc[p] = "cmd_cooldown"
  /\ slept' = [slept EXCEPT ![p] = Cooldown]
  /\ idx' = [idx EXCEPT ![p] = @ + 1]
  /\ pc' = [pc EXCEPT ![p] = "ic_status"]
  /\ chan' = [chan EXCEPT ![p] = 0]
  /\ counters' = [counters EXCEPT ![p] = ZeroCounters]
  /\ pos' = [pos EXCEPT ![p] = 0]
  /\ cur' = [cur EXCEPT ![p] = NoMsg]
  /\ wait' = [wait EXCEPT ![p] = 0]
  /\ obs' = [obs EXCEPT ![p] = [@ EXCEPT !.calls = Append(@, batch[p][idx[p] + 1]),
                                         !.tried = {}, !.sent = {}, !.cause = "none",
                                         !.summary = NoSummary]]
  /\ UNCHANGED <<storeVars, batch, envVars>>

\* line 744: the "all processed" reply
CmdDoneReply(p) ==
  /\ pc[p] = "cmd_done_reply"
  /\ \E o \in Outcomes :
       /\ Fault(o)
       /\ pc' = [pc EXCEPT ![p] = IF o = "ok" THEN "done" ELSE "crashed"]
       /\ obs' = [obs EXCEPT ![p].completed = (o = "ok")]
  /\ UNCHANGED <<storeVars, batch, idx, chan, counters, pos, cur, wait, slept, hist>>

----------------------------------------------------------------------------
(* database.py and main.py: the index markers and /clearindex. *)

\* line 114-119: set_last_indexed_message_id, the upsert of the channel's marker
SetLastIndexedMessageId(sett, channel_id, message_id) == [sett EXCEPT ![channel_id] = message_id]

\* variant: delete_many({}): the records of every channel go
DeleteManyAll(coll, channel_id) == <<>>

\* line 122: delete_many({"channel_id": channel_id}), the collection it leaves
DeleteMany(coll, channel_id) == SelectSeq(coll, LAMBDA d : d.channel_id # channel_id)

\* line 122 and 124: result.deleted_count
DeletedCount(coll, channel_id) == Len(coll) - Len(DeleteMany(coll, channel_id))

\* line 123: delete_one({"_id": f"last_indexed_{channel_id}"})
DeleteOneSetting(sett, channel_id) == [sett EXCEPT ![channel_id] = 0]

\* delete_media_by_channel; fail names the driver call that raises. The two
\* deletions are two calls: when the second raises the first has been applied.
DeleteMediaByChannel(coll, sett, channel_id, fail) ==
  IF fail = "delete_many" THEN
    [raised |-> TRUE, media |-> coll, settings |-> sett, deleted_count |-> -1]
  ELSE IF fail = "delete_one" THEN
    [raised |-> TRUE, media |-> DeleteMany(coll, channel_id), settings |-> sett,
     deleted_count |-> -1]
  ELSE
    [raised |-> FALSE, media |-> DeleteMany(coll, channel_id),
     settings |-> DeleteOneSetting(sett, channel_id),
     deleted_count |-> DeletedCount(coll, channel_id)]

\* await db.set_last_indexed_message_id(channel_id, message_id): a call of the
\* store's own interface (main.py holds no caller of it)
StoreSetLastIndexed ==
  /\ last.op = "none"
  /\ \E c \in ChannelIds, m \in MessageIds :
       /\ settings' = SetLastIndexedMessageId(settings, c, m)
       /\ last' = [op |-> "set_last_indexed", channel_id |-> c, message_id |-> m]
  /\ UNCHANGED <<media, now, users, confirm, bc, scanVars, envVars>>

\* the index_channel calls that have resolved channel_id and not returned to a
\* next target: per /index command the place of the call in its batch (0: none)
CallsOn(channel_id) == [p \in Procs |-> IF chan[p] = channel_id THEN idx[p] ELSE 0]

\* /clearindex <target>, lines 783-805. stop names the transport call that raises
\* before the deletion: the status reply (outside the try), get_chat, or the
\* "clearing" edit; fail is handed to delete_media_by_channel; marker is the
\* index marker the channel had when the command came, calls the index_channel
\* calls on the channel at that moment.
ClearChannel ==
  /\ last.op = "none"
  /\ \E t \in Targets, stop \in {"none", "status_reply", "get_chat", "clearing_edit"},
        fail \in {"none", "delete_many", "delete_one"} :
       LET channel_id == ChatId(t)
           r == DeleteMediaByChannel(media, settings, channel_id, fail)
       IN  IF stop # "none" THEN
             /\ fail = "none"
             /\ last' = [op |-> "clear_channel", channel_id |-> channel_id, called |-> FALSE,
                         raised |-> FALSE, deleted_count |-> -1, marker |-> settings[channel_id],
                         calls |-> CallsOn(channel_id),
                         reply |-> CASE stop = "status_reply" -> "none"
                                     [] stop = "get_chat"     -> "not_found"
                                     [] OTHER                 -> "unexpected_error"]
             /\ UNCHANGED <<media, settings>>
           ELSE
             /\ media' = r.media
             /\ settings' = r.settings
             /\ last' = [op |-> "clear_channel", channel_id |-> channel_id, called |-> TRUE,
                         raised |-> r.raised, deleted_count |-> r.deleted_count,
                         marker |-> settings[channel_id], calls |-> CallsOn(channel_id),
                         reply |-> IF r.raised THEN "unexpected_error" ELSE "cleared"]
  /\ UNCHANGED <<now, users, confirm, bc, scanVars, envVars>>

\* line 758: the phrase the owner is asked to type
Phrase ==
  << "Y", "E", "S", " ", "I", " ", "A", "M", " ", "A", "B", "S", "O", "L", "U", "T", "E", "L",
     "Y", " ", "S", "U", "R", "E" >>

\* what client.listen may give: a text message of the owner, asyncio.TimeoutError
\* after 30 seconds, or another exception
Responses ==
  { [kind |-> "text", text |-> Phrase],
    [kind |-> "text", text |-> StrLower(Phrase)],
    [kind |-> "text", text |-> Phrase \o <<" ">>],
    [kind |-> "text", text |-> <<"Y", "E", "S">>],
    [kind |-> "timeout", text |-> <<>>],
    [kind |-> "error", text |-> <<>>] }

\* variant: the reply is compared without regard to case
ConfirmsAnyCase(response) ==
  response.kind = "text" /\ StrLower(response.text) = StrLower(Phrase)

\* line 767: response and response.text == "YES I AM ABSOLUTELY SURE"
Confirms(response) == response.kind = "text" /\ response.text = Phrase

\* /clearindex all, lines 755-759: the warning is sent and the handler listens
ClearAllAsk ==
  /\ last.op = "none"
  /\ confirm = "none"
  /\ \E ok \in BOOLEAN :
       /\ confirm' = IF ok THEN "asked" ELSE "none"
       /\ last' = [op |-> "clear_all_ask", raised |-> ~ok]
  /\ UNCHANGED <<media, now, users, settings, bc, scanVars, envVars>>

\* /clearindex all, lines 762-781: the listener returns or raises. fail names the
\* call that raises after a confirming reply: the "deleting" edit, the deletion of
\* the records, or the deletion of the markers.
ClearAllAnswer ==
  /\ last.op = "none"
  /\ confirm = "asked"
  /\ \E response \in Responses,
        fail \in {"none", "deleting_edit", "delete_media", "delete_settings"} :
       /\ ~Confirms(response) => fail = "none"
       /\ media' = IF Confirms(response) /\ fail \notin {"deleting_edit", "delete_media"}
                   THEN <<>> ELSE media
       /\ settings' = IF Confirms(response) /\ fail = "none"
                      THEN [c \in ChannelIds |-> 0] ELSE settings
       /\ last' = [op |-> "clear_all", response |-> response,
                   raised |-> fail # "none" \/ response.kind = "error",
                   deleted_count |-> IF Confirms(response) /\ fail = "none"
                                     THEN Len(media) ELSE -1]
       /\ confirm' = "none"
  /\ UNCHANGED <<now, users, bc, scanVars, envVars>>

----------------------------------------------------------------------------
(* database.py and main.py: users, bans and /broadcast. *)

\* database.py 25-33: add_user, the upsert of user_data; its $set carries
\* 'banned': False whatever the document held
AddUser(us, user_id) == [us EXCEPT ![user_id] = "active"]

\* database.py 42-45: set_ban_status, an upsert as well
SetBanStatus(us, user_id, status) ==
  [us EXCEPT ![user_id] = IF status THEN "banned" ELSE "active"]

\* database.py 48-49: the documents find({'banned': False}) matches
NotBanned(us) == {u \in UserIds : us[u] = "active"}

\* database.py 54-55
TotalUsersCount(us) == Cardinality({u \in UserIds : us[u] # "absent"})

\* database.py 57-58
TotalBannedUsersCount(us) == Cardinality({u \in UserIds : us[u] = "banned"})

\* /status, lines 290-333: the three counts are read and shown; any failure is
\* answered with the failure text
StatusCommand ==
  /\ last.op = "none"
  /\ \E fail \in {"none", "count", "reply_text"} :
       last' = [op |-> "status", raised |-> fail # "none",
                total_users  |-> IF fail = "count" THEN -1 ELSE TotalUsersCount(users),
                banned_users |-> IF fail = "count" THEN -1 ELSE TotalBannedUsersCount(users),
                total_media  |-> IF fail = "count" THEN -1 ELSE Len(media),
                reply |-> IF fail = "none" THEN "status" ELSE "failed"]
  /\ UNCHANGED <<media, now, users, settings, confirm, bc, scanVars, envVars>>

\* /start in a private chat, lines 179-186: add_user comes first, before the
\* force-subscribe check and the welcome message, which write nothing
StartCommand ==
  /\ last.op = "none"
  /\ \E u \in UserIds, ok \in BOOLEAN :
       /\ users' = IF ok THEN AddUser(users, u) ELSE users
       /\ last' = [op |-> "start", user |-> u, raised |-> ~ok]
  /\ UNCHANGED <<media, now, settings, confirm, bc, scanVars, envVars>>

\* a button pressed, lines 930-945: a banned user is told so and nothing else happens
CallbackQuery ==
  /\ last.op = "none"
  /\ \E u \in UserIds, ok \in BOOLEAN :
       last' = [op |-> "callback", user |-> u, raised |-> ~ok,
                answer |-> IF ~ok THEN "none"
                           ELSE IF IsUserBanned(users, u) THEN "banned" ELSE "served"]
  /\ UNCHANGED <<media, now, users, settings, confirm, bc, scanVars, envVars>>

\* /ban <user_id> by the owner, lines 457-493
BanCommand ==
  /\ last.op = "none"
  /\ \E u \in UserIds, ok \in BOOLEAN :
       IF u = OWNER_ID THEN
         /\ ok
         /\ last' = [op |-> "ban", user |-> u, raised |-> FALSE, reply |-> "cannot_ban_owner"]
         /\ users' = users
       ELSE
         /\ users' = IF ok THEN SetBanStatus(users, u, TRUE) ELSE users
         /\ last' = [op |-> "ban", user |-> u, raised |-> ~ok,
                     reply |-> IF ok THEN "banned" ELSE "none"]
  /\ UNCHANGED <<media, now, settings, confirm, bc, scanVars, envVars>>

\* /unban <user_id> by the owner, lines 495-522
UnbanCommand ==
  /\ last.op = "none"
  /\ \E u \in UserIds, ok \in BOOLEAN :
       /\ users' = IF ok THEN SetBanStatus(users, u, FALSE) ELSE users
       /\ last' = [op |-> "unban", user |-> u, raised |-> ~ok,
                   reply |-> IF ok THEN "unbanned" ELSE "none"]
  /\ UNCHANGED <<media, now, settings, confirm, bc, scanVars, envVars>>

\* documents the server hands over per batch of the cursor (101 in the first
\* batch of the driver; scaled to the model's users)
CursorBatch == 1

NoTally == [sent |-> -1, failed |-> -1]

\* The /broadcast handler. begun: the users not banned when the handler started;
\* returned: the documents the cursor has handed over; open: whether the server
\* still holds the cursor; buffer: documents of the current batch not yet
\* iterated; attempted: the users a delivery was tried to; refused: those of them
\* that were counted as failed; summary: the counts of final_text once it went out.
NoBroadcast ==
  [pc |-> "idle", eligible |-> 0, begun |-> {}, returned |-> {}, open |-> FALSE,
   buffer |-> <<>>, user |-> 0, attempted |-> {}, refused |-> {}, sent |-> 0, failed |-> 0,
   summary |-> NoTally]

\* what a delivery to one user may do, lines 367-420: it goes through; FloodWait
\* and the retry goes through or not; PeerIdInvalid / ChannelPrivate; an RPCError
\* that names a blocked or deactivated user; another RPCError; another exception
Deliveries == {"ok", "flood_ok", "flood_fail", "peer", "rpc_gone", "rpc_other", "error"}

\* the deliveries counted as sent (lines 380 and 394)
IsSent(o) == o \in {"ok", "flood_ok"}

\* the failures that ban the user (lines 399, 405, 411, 419)
Bans(o) == o \in {"flood_fail", "peer", "rpc_gone", "error"}

\* lines 346-363: the counts, the "starting" reply and the cursor, which asks
\* the server nothing until it is iterated
BcBegin ==
  /\ bc.pc = "idle"
  /\ last.op = "none"
  /\ \E ok \in BOOLEAN :
       LET eligible == TotalUsersCount(users) - TotalBannedUsersCount(users)
       IN  bc' = IF ~ok THEN [bc EXCEPT !.pc = "crashed"]
                 ELSE IF eligible = 0 THEN [bc EXCEPT !.pc = "done"]
                 ELSE [bc EXCEPT !.pc = "next", !.eligible = eligible,
                                 !.begun = NotBanned(users), !.open = TRUE]
  /\ UNCHANGED <<media, now, users, settings, confirm, last, scanVars, envVars>>

\* the batches the server may hand over: up to CursorBatch of the documents that
\* match now and were not handed over before, in the order it stores them
Batches(us, returned) ==
  LET left == NotBanned(us) \ returned
      n    == Min(CursorBatch, Cardinality(left))
  IN  {b \in SeqsUpTo(left, n) : Len(b) = n /\ Cardinality(Range(b)) = n}

\* line 365: async for user in users_cursor: the next document of the batch, or
\* the next batch of the server, or the end of the loop
BcNext ==
  /\ bc.pc = "next"
  /\ last.op = "none"
  /\ IF bc.buffer # <<>> THEN
       bc' = [bc EXCEPT !.pc = "send", !.user = Head(bc.buffer), !.buffer = Tail(bc.buffer)]
     ELSE IF ~bc.open THEN
       bc' = [bc EXCEPT !.pc = "final"]
     ELSE
       \E b \in Batches(users, bc.returned), ok \in BOOLEAN :
         bc' = IF ~ok THEN [bc EXCEPT !.pc = "crashed"]
               ELSE IF b = <<>> THEN [bc EXCEPT !.pc = "final", !.open = FALSE]
               ELSE [bc EXCEPT !.pc = "send", !.user = Head(b), !.buffer = Tail(b),
                               !.returned = @ \cup Range(b),
                               !.open = (Len(b) = CursorBatch)]
  /\ UNCHANGED <<media, now, users, settings, confirm, last, scanVars, envVars>>

\* lines 367-439: one pass of the loop body: the delivery, its except clause and
\* the pause (the progress edit of lines 423-439 changes no count and swallows
\* its failures). stored: whether set_ban_status answers; when it raises the
\* exception leaves the except clause and the handler.
BcSend ==
  /\ bc.pc = "send"
  /\ last.op = "none"
  /\ \E o \in Deliveries, stored \in BOOLEAN :
       /\ ~Bans(o) => stored
       /\ bc' = [bc EXCEPT !.pc = IF stored THEN "next" ELSE "crashed",
                           !.attempted = @ \cup {bc.user},
                           !.refused = IF IsSent(o) THEN @ ELSE @ \cup {bc.user},
                           !.sent = IF IsSent(o) THEN @ + 1 ELSE @,
                           !.failed = IF IsSent(o) THEN @ ELSE @ + 1]
       /\ users' = IF Bans(o) /\ stored THEN SetBanStatus(users, bc.user, TRUE) ELSE users
  /\ UNCHANGED <<media, now, settings, confirm, last, scanVars, envVars>>

\* lines 441-454: final_text as an edit, as a new message when the edit fails;
\* when that fails too the exception leaves the handler
BcFinal ==
  /\ bc.pc = "final"
  /\ last.op = "none"
  /\ \E o \in {"edit", "reply", "none"} :
       bc' = IF o = "none" THEN [bc EXCEPT !.pc = "crashed"]
             ELSE [bc EXCEPT !.pc = "done", !.summary = [sent |-> bc.sent, failed |-> bc.failed]]
  /\ UNCHANGED <<media, now, users, settings, confirm, last, scanVars, envVars>>

\* no owner command is running
IdleOwner ==
  /\ settings = [c \in ChannelIds |-> 0]
  /\ confirm = "none"
  /\ bc = NoBroadcast

----------------------------------------------------------------------------
(* Specifications. *)

IdleScan ==
  /\ pc = [p \in Procs |-> "idle"]
  /\ batch = [p \in Procs |-> <<>>]
  /\ idx = [p \in Procs |-> 0]
  /\ chan = [p \in Procs |-> 0]
  /\ counters = [p \in Procs |-> ZeroCounters]
  /\ pos = [p \in Procs |-> 0]
  /\ cur = [p \in Procs |-> NoMsg]
  /\ wait = [p \in Procs |-> 0]
  /\ slept = [p \in Procs |-> 0]
  /\ obs = [p \in Procs |-> NoObs]

\* The store and the search handler alone: no scan runs.
InitStore ==
  /\ media = <<>>
  /\ now = 0
  /\ users = [u \in UserIds |-> CASE u = OWNER_ID -> "active" [] u = 2 -> "absent" [] OTHER -> "banned"]
  /\ last = NoCall
  /\ IdleOwner
  /\ IdleScan
  /\ hist = [c \in ChannelIds |-> <<>>]
  /\ faults = 0

NextStore == StoreAddMedia \/ StoreSearch \/ GroupFilter \/ Resume

SpecStore == InitStore /\ [][NextStore]_vars

\* One /index command over a batch of one to MaxBatch targets. The channels the
\* batch names have any of the histories; the store starts empty.
InitScan ==
  /\ media = <<>>
  /\ now = 0
  /\ users = [u \in UserIds |-> IF u = OWNER_ID THEN "active" ELSE "absent"]
  /\ last = NoCall
  /\ IdleOwner
  /\ batch \in {b \in [Procs -> SeqsUpTo(Targets, MaxBatch)] : b[1] # <<>> /\ b[2] = <<>>}
  /\ pc = [p \in Procs |-> IF p = 1 THEN "cmd_init_reply" ELSE "idle"]
  /\ idx = [p \in Procs |-> 0]
  /\ chan = [p \in Procs |-> 0]
  /\ counters = [p \in Procs |-> ZeroCounters]
  /\ pos = [p \in Procs |-> 0]
  /\ cur = [p \in Procs |-> NoMsg]
  /\ wait = [p \in Procs |-> 0]
  /\ slept = [p \in Procs |-> 0]
  /\ obs = [p \in Procs |-> NoObs]
  /\ hist \in {h \in [ChannelIds -> Histories] :
                 \A t \in Targets : t \notin Range(batch[1]) => h[ChatId(t)] = <<>>}
  /\ faults = 0

NextScan ==
  \E p \in Procs :
    \/ CmdInitReply(p)
    \/ IcStatus(p)
    \/ IcGetChat(p)
    \/ IcFoundEdit(p)
    \/ IcResFailEdit(p)
    \/ IcHistory(p)
    \/ IcAdd(p)
    \/ IcProgress(p)
    \/ IcProgressSleep(p)
    \/ IcProgressFloodSleep(p)
    \/ IcFloodEdit(p)
    \/ IcFloodSleep(p)
    \/ IcResumeEdit(p)
    \/ IcAccessEdit(p)
    \/ IcErrorEdit(p)
    \/ IcFinalEdit(p)
    \/ IcFinalReply(p)
    \/ CmdNextReply(p)
    \/ CmdCooldown(p)
    \/ CmdDoneReply(p)

SpecScan == InitScan /\ [][NextScan]_vars

\* Two /index commands at once: the handlers run as tasks of one event loop
\* and interleave at their awaits. Every channel holds the same two attachments.
InitTwoScans ==
  /\ media = <<>>
  /\ now = 0
  /\ users = [u \in UserIds |-> IF u = OWNER_ID THEN "active" ELSE "absent"]
  /\ last = NoCall
  /\ IdleOwner
  /\ batch \in {b \in [Procs -> SeqsUpTo(Targets, MaxBatch)] :
                  b[1] \in {<<1>>, <<1, 2>>} /\ Len(b[2]) = 1}
  /\ pc = [p \in Procs |-> "cmd_init_reply"]
  /\ idx = [p \in Procs |-> 0]
  /\ chan = [p \in Procs |-> 0]
  /\ counters = [p \in Procs |-> ZeroCounters]
  /\ pos = [p \in Procs |-> 0]
  /\ cur = [p \in Procs |-> NoMsg]
  /\ wait = [p \in Procs |-> 0]
  /\ slept = [p \in Procs |-> 0]
  /\ obs = [p \in Procs |-> NoObs]
  /\ hist = [c \in ChannelIds |-> HistMedia]
  /\ faults = 0

SpecTwoScans == InitTwoScans /\ [][NextScan]_vars

\* One /index command, and beside it the owner's /clearindex <target> and the
\* store's set_last_indexed_message_id: the handlers are tasks of one event loop,
\* and a command is handled in full between two awaits of the scan.
NextScanOwner == NextScan \/ StoreSetLastIndexed \/ ClearChannel \/ Resume

\* the /index command names both targets; the first channel holds the mixed
\* history, the second an attachment above a text message
InitScanOwner ==
  /\ media = <<>>
  /\ now = 0
  /\ users = [u \in UserIds |-> IF u = OWNER_ID THEN "active" ELSE "absent"]
  /\ last = NoCall
  /\ IdleOwner
  /\ batch = [p \in Procs |-> IF p = 1 THEN <<1, 2>> ELSE <<>>]
  /\ pc = [p \in Procs |-> IF p = 1 THEN "cmd_init_reply" ELSE "idle"]
  /\ idx = [p \in Procs |-> 0]
  /\ chan = [p \in Procs |-> 0]
  /\ counters = [p \in Procs |-> ZeroCounters]
  /\ pos = [p \in Procs |-> 0]
  /\ cur = [p \in Procs |-> NoMsg]
  /\ wait = [p \in Procs |-> 0]
  /\ slept = [p \in Procs |-> 0]
  /\ obs = [p \in Procs |-> NoObs]
  /\ hist = [c \in ChannelIds |-> IF c = ChatId(1) THEN HistExample ELSE HistAnnounced]
  /\ faults = 0

SpecScanOwner == InitScanOwner /\ [][NextScanOwner]_vars

\* The two normalisations alone, on every file name, caption and query of the bounds.
NextText == Normalize \/ Resume

SpecText == InitStore /\ [][NextText]_vars

\* get_media_link alone, on every identity, message id and transport answer above.
NextLink == BuildLink \/ Resume

SpecLink == InitStore /\ [][NextLink]_vars

\* The store, its index markers and the two forms of /clearindex.
NextClear ==
  \/ StoreAddMedia
  \/ StoreSetLastIndexed
  \/ ClearChannel
  \/ ClearAllAsk
  \/ ClearAllAnswer
  \/ Resume

SpecClear == InitStore /\ [][NextClear]_vars

\* one record that a group message can find
SeededMedia == <<MediaData(0, -1001, 1, 101, <<"a">>, None, "document", 1)>>

\* The users collection and every handler that reads or writes the ban flag,
\* over a store that holds one record.
InitUsers ==
  /\ media = SeededMedia
  /\ now = 0
  /\ users = [u \in UserIds |-> CASE u = OWNER_ID -> "active" [] u = 2 -> "absent" [] OTHER -> "banned"]
  /\ last = NoCall
  /\ IdleOwner
  /\ IdleScan
  /\ hist = [c \in ChannelIds |-> <<>>]
  /\ faults = 0

NextUsers ==
  \/ StartCommand
  \/ CallbackQuery
  \/ BanCommand
  \/ UnbanCommand
  \/ GroupFilter
  \/ Resume

SpecUsers == InitUsers /\ [][NextUsers]_vars

\* One /broadcast, while users start the bot and the owner bans and unbans.
NextBroadcast ==
  \/ BcBegin
  \/ BcNext
  \/ BcSend
  \/ BcFinal
  \/ StartCommand
  \/ BanCommand
  \/ UnbanCommand
  \/ Resume

SpecBroadcast == InitStore /\ [][NextBroadcast]_vars

\* The force-subscribe check, alone and inside the group handler.
NextForceSub == ForceSubCheck \/ GroupFilter \/ Resume

SpecForceSub == InitUsers /\ [][NextForceSub]_vars

\* Every handler but the scan and /clearindex, over a store that holds one record.
NextHandlers ==
  \/ NextUsers
  \/ StatusCommand
  \/ BuildLink
  \/ BcBegin
  \/ BcNext
  \/ BcSend
  \/ BcFinal

SpecHandlers == InitUsers /\ [][NextHandlers]_vars

----------------------------------------------------------------------------
(* Claims about the store (SpecStore). *)

Keys == ChannelIds \X MessageIds

DocsAt(coll, k) == SelectSeq(coll, LAMBDA d : d.channel_id = k[1] /\ d.message_id = k[2])

\* the step is a successful add_media for key k
Upserts(k) ==
  /\ last'.op = "add_media"
  /\ ~last'.raised
  /\ last'.doc.channel_id = k[1]
  /\ last'.doc.message_id = k[2]

\* C1: after any sequence of add_media calls the collection holds at most one
\* document per (channel_id, message_id); a successful add_media leaves under its
\* key exactly the document it wrote, and every other step leaves the documents
\* of the key as they were, so the record is that of the latest add_media.
C1_UpsertKeepsOneLatest ==
  /\ [](\A k \in Keys : Len(DocsAt(media, k)) <= 1)
  /\ [][\A k \in Keys :
          IF Upserts(k) THEN DocsAt(media', k) = <<last'.doc>>
          ELSE DocsAt(media', k) = DocsAt(media, k)]_vars

\* C1 witness: add_media has just replaced the document of its key by one with
\* another file_size
C1_Witness ==
  /\ last.op = "add_media"
  /\ ~last.raised
  /\ Len(last.old) = 1
  /\ last.old[1].file_size # last.doc.file_size
  /\ Len(media) = 1
  /\ media[1] = last.doc

\* C9: a search_media call whose query holds no word character (empty, blanks,
\* punctuation) returns the empty list, without a query to the store and without
\* raising.
C9_EmptyQueryShortCircuits ==
  (last.op = "search_media" /\ \A i \in 1..Len(last.query) : last.query[i] \notin WordChars)
    => (~last.queried /\ last.rows = <<>> /\ ~last.raised)

\* C9 witness: search_media has answered a query of blanks and punctuation while
\* the store holds documents
C9_Witness ==
  /\ last.op = "search_media"
  /\ last.query = <<" ", ".", " ">>
  /\ media # <<>>
  /\ last.rows = <<>>

\* the terms of the query of the last call, and the score and match of a document
\* against them
LastTerms == Range(FindWords(StrLower(last.query), 1, <<>>))

LastScore(d) == Cardinality(Range(FindWords(d.search_tags, 1, <<>>)) \cap LastTerms)

\* a is ranked at least as high as b: a higher score, or the same score and a
\* message_id that is not lower
RankedAtLeast(a, b) ==
  \/ LastScore(a) > LastScore(b)
  \/ LastScore(a) = LastScore(b) /\ a.message_id >= b.message_id

\* C10: the rows a search returns are at most max_results stored documents that
\* match the query, highest score first and, on equal scores, highest message_id
\* first; no document left out ranks above a returned one, and none is left out
\* while there is room; the group handler shows the rows it got in that order.
C10_SearchRankedAndLimited ==
  (last.op \in {"search_media", "group_filter"} /\ last.queried /\ ~last.raised
     /\ last.reply \notin {"internal_error"})
    => LET rows == last.rows
           left == {i \in 1..Len(media) : LastScore(media[i]) > 0 /\ media[i] \notin Range(rows)}
       IN  /\ Len(rows) <= last.limit
           /\ \A i \in 1..Len(rows) : rows[i] \in Range(media) /\ LastScore(rows[i]) > 0
           /\ \A i, j \in 1..Len(rows) : i < j => rows[i] # rows[j] /\ RankedAtLeast(rows[i], rows[j])
           /\ \A i \in left : Len(rows) = last.limit /\ RankedAtLeast(rows[Len(rows)], media[i])
           /\ last.reply \in {"results", "results_then_apology"} =>
                last.shown = [i \in 1..Len(rows) |-> <<rows[i].channel_id, rows[i].message_id>>]

\* C10 witness: the group handler has shown two rows, the first with the higher score
C10_Witness ==
  /\ last.op = "group_filter"
  /\ last.reply = "results"
  /\ Len(last.shown) = 2
  /\ LastScore(last.rows[1]) > LastScore(last.rows[2])

----------------------------------------------------------------------------
(* Claims about the scanner and its batch driver (SpecScan). *)

\* the messages of h[1..n] that carry a video, a document or an audio
NumMedia(h, n) == Cardinality({i \in 1..n : HasMedia(h[i])})

\* the current index_channel call has ended
CallEnded(p) == obs[p].calls # <<>> /\ Len(obs[p].results) = Len(obs[p].calls)

LastResult(p) == obs[p].results[Len(obs[p].results)]

\* the await points of the loop of lines 600-670
LoopPcs == {"ic_history", "ic_add", "ic_progress", "ic_progress_sleep", "ic_progress_flood_sleep"}

\* the await points after the loop was left by an error, and after the call
AbortPcs == {"ic_resfail_edit", "ic_access_edit", "ic_error_edit", "crashed",
             "cmd_next_reply", "cmd_cooldown", "cmd_done_reply", "done"}

\* C2: a scan whose history stream raised a flood-control signal, the only
\* failure of the run, ends DONE with every message of the channel counted.
C2_FloodedScanCountsEveryMessage ==
  \A p \in Procs :
    (obs[p].cause = "flood" /\ faults = 1 /\ CallEnded(p))
      => /\ LastResult(p) = "DONE"
         /\ obs[p].summary.total = Len(hist[chan[p]])
         /\ obs[p].summary.processed + obs[p].summary.skipped = obs[p].summary.total

\* C3: a scan that ended DONE without a failed upsert reports as processed the
\* messages of the channel with a video, document or audio and as skipped all
\* the others.
C3_DoneCountsMediaAndOthers ==
  \A p \in Procs :
    (CallEnded(p) /\ LastResult(p) = "DONE" /\ obs[p].summary.failed = 0)
      => LET h == hist[chan[p]]
         IN  /\ obs[p].summary.processed = NumMedia(h, Len(h))
             /\ obs[p].summary.skipped = Len(h) - NumMedia(h, Len(h))

\* the same for the scans that left the loop because the history was exhausted
SkipAccountingWhenExhausted ==
  \A p \in Procs :
    (CallEnded(p) /\ LastResult(p) = "DONE" /\ obs[p].cause = "exhausted"
       /\ obs[p].summary.failed = 0)
      => LET h == hist[chan[p]]
         IN  /\ obs[p].summary.processed = NumMedia(h, Len(h))
             /\ obs[p].summary.skipped = Len(h) - NumMedia(h, Len(h))

\* C4: a step in which add_media fails adds one to failed, leaves the other
\* counters and goes on with the loop; and inside the loop every message the
\* transport has delivered is counted once, an upsert having been issued for
\* each one that carries media.
C4_FailedUpsertCountedScanGoesOn ==
  /\ [][\A p \in Procs :
          (pc[p] = "ic_add" /\ pc'[p] # "ic_add"
             /\ counters'[p].processed = counters[p].processed)
            => /\ counters'[p] = [counters[p] EXCEPT !.failed = @ + 1]
               /\ pc'[p] \in {"ic_history", "ic_progress"}]_vars
  /\ [](\A p \in Procs :
          pc[p] \in LoopPcs =>
            LET c == counters[p]
                pending == IF pc[p] = "ic_add" THEN 1 ELSE 0
            IN  /\ c.total = pos[p]
                /\ c.processed + c.skipped + c.failed + pending = c.total
                /\ c.processed + c.failed + pending = NumMedia(hist[chan[p]], pos[p]))

\* C4 witness: in one scan an upsert failed and the upsert of a later message,
\* the only one applied so far, is in the store
C4_Witness ==
  \E p \in Procs :
    /\ pc[p] \in {"ic_history", "ic_progress"}
    /\ counters[p].failed = 1
    /\ counters[p].processed = 1
    /\ now = 1
    /\ Len(media) = 1
    /\ media[1].message_id = cur[p].id
    /\ media[1].channel_id = chan[p]

\* C5: once get_chat has failed, the call pulls no history, counts nothing and
\* issues no upsert (the media collection stays as it is), sends the error report
\* and never the finished summary, and does not end DONE.
C5_ResolveFailureWritesNothing ==
  /\ [](\A p \in Procs :
          obs[p].cause = "resolve" =>
            /\ pc[p] \in AbortPcs
            /\ pos[p] = 0
            /\ counters[p] = ZeroCounters
            /\ "summary" \notin obs[p].tried
            /\ pc[p] # "ic_resfail_edit" => "resolve_error" \in obs[p].tried
            /\ CallEnded(p) => LastResult(p) \in {"FAILED", "RAISED"})
  /\ [][\A p \in Procs : obs'[p].cause = "resolve" => media' = media]_vars

\* C5 witness: the second channel of a batch could not be resolved; the call has
\* reported it and returned, and the records of the first channel are in the store
C5_Witness ==
  \E p \in Procs :
    /\ obs[p].cause = "resolve"
    /\ CallEnded(p)
    /\ LastResult(p) = "FAILED"
    /\ "resolve_error" \in obs[p].sent
    /\ media # <<>>

\* C6: once the history or the extraction has raised an access error or an
\* unexpected exception, the call pulls no further message and issues no further
\* upsert, sends the error report and never the finished summary, does not end
\* DONE, and the same channel is not scanned again by the loop of the command.
C6_FatalErrorAbortsScan ==
  /\ [](\A p \in Procs :
          /\ idx[p] = Len(obs[p].calls)
          /\ obs[p].cause \in {"access", "error"} =>
               /\ pc[p] \in AbortPcs \ {"ic_resfail_edit"}
               /\ "summary" \notin obs[p].tried
               /\ (obs[p].cause = "access" /\ pc[p] # "ic_access_edit")
                     => "access_error" \in obs[p].tried
               /\ (obs[p].cause = "error" /\ pc[p] # "ic_error_edit")
                     => "unexpected_error" \in obs[p].tried
               /\ CallEnded(p) => LastResult(p) \in {"FAILED", "RAISED"})
  /\ [][\A p \in Procs :
          (obs[p].cause \in {"access", "error"} /\ obs'[p].cause = obs[p].cause)
            => /\ pos'[p] = pos[p]
               /\ counters'[p] = counters[p]
               /\ media' = media
               /\ obs'[p].calls = obs[p].calls]_vars

\* C6 witness: access was lost after a record was committed and before the
\* history was exhausted; the call has reported it and returned
C6_Witness ==
  \E p \in Procs :
    /\ obs[p].cause = "access"
    /\ CallEnded(p)
    /\ LastResult(p) = "FAILED"
    /\ "access_error" \in obs[p].sent
    /\ counters[p].processed > 0
    /\ pos[p] < Len(hist[chan[p]])

\* C7: when the scan of a channel that is not the last of the batch has ended
\* without the finished summary, the command goes on to the next channel.
C7_FailedScanDoesNotStopBatch ==
  \A p \in Procs :
    (CallEnded(p) /\ LastResult(p) \in {"FAILED", "RAISED"}
       /\ Len(obs[p].calls) < Len(batch[p]))
      => pc[p] \in {"cmd_next_reply", "cmd_cooldown"}

\* C8: index_channel is called for the channels of the batch in list order, one
\* at a time; a call after the first begins only from the cooldown, when the call
\* before it has ended and the sleep of 5 seconds has completed; no cooldown
\* follows the last channel.
C8_SequentialWithCooldown ==
  /\ [](\A p \in Procs :
          /\ Len(obs[p].calls) <= Len(batch[p])
          /\ obs[p].calls = SubSeq(batch[p], 1, Len(obs[p].calls))
          /\ Len(obs[p].calls) - Len(obs[p].results) \in {0, 1}
          /\ pc[p] \in {"cmd_next_reply", "cmd_cooldown"} =>
               (CallEnded(p) /\ Len(obs[p].calls) < Len(batch[p])))
  /\ [][\A p \in Procs :
          (obs[p].calls # <<>> /\ obs'[p].calls # obs[p].calls)
            => /\ pc[p] = "cmd_cooldown"
               /\ CallEnded(p)
               /\ slept'[p] = Cooldown
               /\ Cooldown = 50
               /\ pc'[p] = "ic_status"]_vars

\* C8 witness: the second scan of a batch runs, after the cooldown
C8_Witness ==
  \E p \in Procs :
    /\ Len(obs[p].calls) = 2
    /\ Len(obs[p].results) = 1
    /\ pc[p] = "ic_history"

----------------------------------------------------------------------------
(* Claims about the normalisation of both sides (SpecText). *)

\* letters and digits: what a reader takes for the characters of a word
IsAlnum(c) == c \in WordChars \ {"_"}

\* q is a case / punctuation variant of s: the same letters and digits up to
\* case, and a non-alphanumeric character wherever s has one
IsVariant(q, s) ==
  /\ Len(q) = Len(s)
  /\ \A k \in 1..Len(s) :
       IF IsAlnum(s[k]) THEN Lower(q[k]) = Lower(s[k]) ELSE ~IsAlnum(q[k])

\* q is a variant of a substring of t that holds a letter or digit and neither
\* starts nor ends inside a run of letters and digits
IsVariantOfWordsOf(q, t) ==
  \E i \in 1..Len(t) : \E j \in i..Len(t) :
    /\ i = 1 \/ ~IsAlnum(t[i - 1])
    /\ j = Len(t) \/ ~IsAlnum(t[j + 1])
    /\ \E k \in i..j : IsAlnum(t[k])
    /\ IsVariant(q, SubSeq(t, i, j))

\* C11: when the query is a case / punctuation variant of a substring of the
\* record's text (here: of whole words of it), the stored terms and the terms of
\* the cleaned query overlap.
C11_VariantQueryOverlaps ==
  (last.op = "normalize" /\ ~last.raised
     /\ IsVariantOfWordsOf(last.query, SearchText(last.file_name, last.caption)))
    => Terms(last.tags) \cap Terms(last.cleaned) # {}

\* C12: for every text, None and the empty text included, the side of add_media
\* (the text as file_name, no caption) and the side of search_media (the text as
\* query) give the same terms in the same order, and neither raises.
C12_BothSidesNormalizeAlike ==
  (last.op = "normalize" /\ last.caption = None /\ last.query = last.file_name)
    => /\ ~last.raised
       /\ FindWords(last.tags, 1, <<>>) = FindWords(last.cleaned, 1, <<>>)

\* the same for the texts that are not None
BothSidesAlikeOnStr ==
  (last.op = "normalize" /\ last.caption = None /\ last.query = last.file_name
     /\ last.query # None)
    => /\ ~last.raised
       /\ last.tags = last.cleaned

\* C13: normalising the space-joined output again gives the token sequence of
\* the first normalisation, on the side of add_media and on that of search_media.
C13_NormalizeIdempotent ==
  last.op = "normalize" =>
    /\ FindWords(StrLower(last.tags), 1, <<>>)
         = FindWords(StrLower(SearchText(last.file_name, last.caption)), 1, <<>>)
    /\ CleanText(last.tags) = last.tags
    /\ ~last.raised =>
         /\ FindWords(StrLower(last.cleaned), 1, <<>>) = FindWords(StrLower(last.query), 1, <<>>)
         /\ CleanedQuery(last.cleaned) = last.cleaned

\* C13 witness: a text of two words in upper case around punctuation was normalised
C13_Witness ==
  /\ last.op = "normalize"
  /\ last.query = <<"A", ".", "A">>
  /\ last.cleaned = <<"a", " ", "a">>
  /\ last.file_name = <<"A", "_", "A">>
  /\ last.tags = <<"a", "_", "a", " ", "a">>

----------------------------------------------------------------------------
(* Claims about stored records (SpecStore). *)

\* C14: the search_tags of every stored document are the normalisation of that
\* document's own file_name + " " + caption, also after the document of a key
\* was written again with another file name or caption.
C14_TagsFollowNameAndCaption ==
  \A i \in 1..Len(media) :
    media[i].search_tags = CleanText(SearchText(media[i].file_name, media[i].caption))

\* C14 witness: add_media has replaced a document by one with another file name
\* and caption, and with other search_tags
C14_Witness ==
  /\ last.op = "add_media"
  /\ ~last.raised
  /\ Len(last.old) = 1
  /\ last.old[1].file_name # last.doc.file_name
  /\ last.old[1].search_tags # last.doc.search_tags
  /\ last.doc \in Range(media)

----------------------------------------------------------------------------
(* Claims about get_media_link (SpecLink). *)

\* sub occurs in s
Contains(s, sub) == \E i \in 0..(Len(s) - Len(sub)) : SubSeq(s, i + 1, i + Len(sub)) = sub

\* the decimal digits of the id after its -100 prefix
AfterPrefix(n) == SubSeq(IntStr(n), 5, Len(IntStr(n)))

\* C15: for an int with the prefix -100 the link is https://t.me/c/<the digits
\* after -100>/<message_id>, and the transport is not asked.
C15_PrivateIdGivesPrivateLink ==
  (last.op = "get_media_link" /\ last.channel_id.type = "int"
     /\ StartsWith(IntStr(last.channel_id.value), Minus100))
    => /\ ~last.asked
       /\ ~last.raised
       /\ last.link = LinkBase \o <<"c", "/">> \o AfterPrefix(last.channel_id.value)
                        \o <<"/">> \o IntStr(last.message_id)

\* C15 witness: the link of message 42 of channel -1001234 holds c/1234/42
C15_Witness ==
  /\ last.op = "get_media_link"
  /\ last.channel_id = IntId(-1001234)
  /\ last.message_id = 42
  /\ Contains(last.link, <<"c", "/", "1", "2", "3", "4", "/", "4", "2">>)

\* C16: for a handle @h the link holds h/<message_id>, whatever the transport
\* answers.
C16_HandleGivesHandleLink ==
  (last.op = "get_media_link" /\ last.channel_id.type = "str"
     /\ StartsWith(last.channel_id.value, <<"@">>))
    => /\ ~last.raised
       /\ Contains(last.link, Tail(last.channel_id.value) \o <<"/">> \o IntStr(last.message_id))

\* C17: for every other identity the transport is asked, a link is returned and
\* nothing is raised; when the transport fails or knows no username the link is
\* the private-style c/<id>/<message_id>.
C17_AmbiguousIdAlwaysGivesLink ==
  (last.op = "get_media_link" /\ ~IsPrivateId(last.channel_id) /\ ~IsHandle(last.channel_id))
    => /\ last.asked
       /\ ~last.raised
       /\ StartsWith(last.link, LinkBase)
       /\ (last.answer.raises \/ last.answer.username \in {None, <<>>})
            => StartsWith(last.link, LinkBase \o <<"c", "/">>)

----------------------------------------------------------------------------
(* Claims about scanned records (SpecScan). *)

\* the search_tags add_media computes for message msg
TagsOf(msg) == CleanText(SearchText(FileNameOf(msg), CaptionOf(msg)))

\* a search_media call in this state, for all the tokens of msg or for any one of
\* them, with the handler's limit, returns the record of msg
FoundByOwnTokens(channel_id, msg) ==
  \A query \in {TagsOf(msg)} \cup Terms(TagsOf(msg)) :
    \E i \in 1..Len(SearchMedia(media, query, MAX_RESULTS).rows) :
      LET row == SearchMedia(media, query, MAX_RESULTS).rows[i]
      IN  row.channel_id = channel_id /\ row.message_id = msg.id

\* C18: once the scan of a channel has ended DONE without a failed upsert, every
\* message of the channel with a video, document or audio is found by a search
\* for its own tokens.
C18_DoneScanIsSearchable ==
  \A p \in Procs :
    (CallEnded(p) /\ LastResult(p) = "DONE" /\ obs[p].summary.failed = 0)
      => \A i \in 1..Len(hist[chan[p]]) :
           HasMedia(hist[chan[p]][i]) => FoundByOwnTokens(chan[p], hist[chan[p]][i])

\* the same for the scans that left the loop because the history was exhausted
SearchableWhenExhausted ==
  \A p \in Procs :
    (CallEnded(p) /\ LastResult(p) = "DONE" /\ obs[p].cause = "exhausted"
       /\ obs[p].summary.failed = 0)
      => \A i \in 1..Len(hist[chan[p]]) :
           HasMedia(hist[chan[p]][i]) => FoundByOwnTokens(chan[p], hist[chan[p]][i])

\* the attachment kinds the scanner indexes
MediaKinds == {"video", "document", "audio"}

\* C19: every stored record has the key of a message of its channel that carries
\* a video, a document or an audio, and has that kind as its file_type; messages
\* of other kinds (text, photo) have no record.
C19_RecordsComeFromMedia ==
  /\ \A i \in 1..Len(media) :
       /\ media[i].file_type \in MediaKinds
       /\ \E j \in 1..Len(hist[media[i].channel_id]) :
            LET msg == hist[media[i].channel_id][j]
            IN  /\ msg.id = media[i].message_id
                /\ msg.kind = media[i].file_type
  /\ \A c \in ChannelIds : \A j \in 1..Len(hist[c]) :
       hist[c][j].kind \notin MediaKinds
         => \A i \in 1..Len(media) :
              ~(media[i].channel_id = c /\ media[i].message_id = hist[c][j].id)

\* C19 witness: the scan of [text, video, photo, document] has ended with two
\* messages skipped and the two others in the store
C19_Witness ==
  \E p \in Procs :
    /\ CallEnded(p)
    /\ LastResult(p) = "DONE"
    /\ hist[chan[p]] = HistExample
    /\ obs[p].summary.skipped = 2
    /\ {media[i].message_id : i \in 1..Len(media)} = {1, 3}

\* message number i of the history of the scan of p has been dealt with: it was
\* delivered and the loop is past its add_media
DealtWith(p, i) == i <= pos[p] /\ ~(i = pos[p] /\ pc[p] = "ic_add")

\* the record of msg of channel_id exists and has a file name
HasNamedRecord(channel_id, msg) ==
  \E i \in 1..Len(media) :
    /\ media[i].channel_id = channel_id
    /\ media[i].message_id = msg.id
    /\ media[i].file_name \notin {None, <<>>}

\* C20: while no upsert has failed, every message with a video, document or
\* audio that the scan has dealt with has a record with a non-empty file_name,
\* whatever its file name and mime type were.
C20_EveryEligibleMessageIsNamed ==
  \A p \in Procs :
    (chan[p] # 0 /\ counters[p].failed = 0)
      => \A i \in 1..Len(hist[chan[p]]) :
           (DealtWith(p, i) /\ hist[chan[p]][i].kind \in MediaKinds)
             => HasNamedRecord(chan[p], hist[chan[p]][i])

\* the same for the messages whose attachment has a mime type or a file name
NamedUnlessMimeIsNone ==
  \A p \in Procs :
    (chan[p] # 0 /\ counters[p].failed = 0)
      => \A i \in 1..Len(hist[chan[p]]) :
           (DealtWith(p, i) /\ hist[chan[p]][i].kind \in MediaKinds
              /\ ~(hist[chan[p]][i].file_name \in {None, <<>>} /\ hist[chan[p]][i].mime_type = None))
             => HasNamedRecord(chan[p], hist[chan[p]][i])

----------------------------------------------------------------------------
(* Claims about /clearindex, checked under SpecClear. *)

\* C21: delete_media_by_channel(c) touches channel c only: whatever it does, the
\* records and the index markers of every other channel are as before; when it
\* returns, no record of c is left, the number returned is the number of records
\* c had, and c's marker is gone. A step that makes a key disappear from the
\* media collection is a per-channel clear or a clear-all.
C21_ClearRemovesOneChannelOnly ==
  [][ /\ last'.op = "clear_channel" =>
           LET c == last'.channel_id
           IN  /\ \A k \in Keys : k[1] # c => DocsAt(media', k) = DocsAt(media, k)
               /\ \A o \in ChannelIds \ {c} : settings'[o] = settings[o]
               /\ (last'.called /\ ~last'.raised) =>
                    /\ \A k \in Keys : k[1] = c => DocsAt(media', k) = <<>>
                    /\ last'.deleted_count =
                         Cardinality({i \in 1..Len(media) : media[i].channel_id = c})
                    /\ Len(media') = Len(media) - last'.deleted_count
                    /\ settings'[c] = 0
      /\ (\E k \in Keys : DocsAt(media, k) # <<>> /\ DocsAt(media', k) = <<>>)
           => last'.op \in {"clear_channel", "clear_all"}
    ]_vars

\* a clear that removed a record and a marker of its channel while another
\* channel keeps a record and a marker
C21_Witness ==
  /\ last.op = "clear_channel"
  /\ last.called /\ ~last.raised
  /\ last.deleted_count >= 1
  /\ last.marker # 0
  /\ media # <<>>
  /\ \E o \in ChannelIds : settings[o] # 0

\* C25: /clearindex all deletes only when the listener returned a text that is
\* exactly the phrase: after any other reply, a timeout or an error of the
\* listener, the media collection and the index markers are as they were; after
\* the phrase, when no call failed, both are empty.
C25_ClearAllNeedsExactPhrase ==
  [][ last'.op = "clear_all" =>
        /\ last'.response # [kind |-> "text", text |-> Phrase]
             => media' = media /\ settings' = settings
        /\ (last'.response = [kind |-> "text", text |-> Phrase] /\ ~last'.raised)
             => media' = <<>> /\ \A c \in ChannelIds : settings'[c] = 0
    ]_vars

\* the phrase in lower case was the reply, and records and a marker are still there
C25_Witness ==
  /\ last.op = "clear_all"
  /\ last.response.kind = "text"
  /\ last.response.text # Phrase
  /\ StrLower(last.response.text) = StrLower(Phrase)
  /\ media # <<>>
  /\ \E c \in ChannelIds : settings[c] # 0

----------------------------------------------------------------------------
(* Claims about bans, checked under SpecUsers. *)

\* C24: a ban lasts until the owner's /unban of that user: a step after which a
\* banned user is no longer banned is the /unban of that user, and a group
\* message of a banned user is not searched for.
C24_BanLastsUntilUnban ==
  [][ /\ \A u \in UserIds :
           (users[u] = "banned" /\ users'[u] # "banned")
             => (last'.op = "unban" /\ last'.user = u)
      /\ (last'.op = "group_filter" /\ last'.user # 0 /\ ~last'.raised
            /\ users[last'.user] = "banned")
           => ~last'.queried
    ]_vars

\* what does hold: only /unban of the user and the user's own /start end a ban
BanLastsUntilUnbanOrStart ==
  [][ \A u \in UserIds :
        (users[u] = "banned" /\ users'[u] # "banned")
          => (last'.op \in {"unban", "start"} /\ last'.user = u) ]_vars

----------------------------------------------------------------------------
(* Claims about /broadcast, checked under SpecBroadcast. *)

\* C26: when a broadcast that had someone to deliver to has ended, a delivery was
\* tried to every user who was not banned when it began, and the summary went
\* out with sent + failed equal to the number of those users.
C26_BroadcastReachesEveryUser ==
  (bc.pc \in {"done", "crashed"} /\ bc.begun # {}) =>
    /\ bc.begun \subseteq bc.attempted
    /\ bc.summary # NoTally
    /\ bc.summary.sent + bc.summary.failed = Cardinality(bc.begun)

----------------------------------------------------------------------------
(* Claims about a failing search, checked under SpecStore. *)

\* the stored documents that match the query of the last call
LastMatches == {i \in 1..Len(media) : LastScore(media[i]) > 0}

\* C23: a search that queried the store gave its caller either a failure and no
\* row, or every matching document up to the limit; when search_media raised in
\* the group handler the user got the apology and no row, and otherwise the rows
\* shown, if any, are all the rows of the search.
C23_SearchFailsWhole ==
  /\ (last.op = "search_media" /\ last.queried) =>
       IF last.raised THEN last.rows = <<>>
       ELSE Len(last.rows) = Min(last.limit, Cardinality(LastMatches))
  /\ (last.op = "group_filter" /\ last.queried) =>
       IF last.fault = "search_media"
       THEN last.reply = "internal_error" /\ last.rows = <<>> /\ last.shown = <<>>
       ELSE /\ Len(last.rows) = Min(last.limit, Cardinality(LastMatches))
            /\ last.shown # <<>> => Len(last.shown) = Len(last.rows)

\* the search of a group message failed while two stored documents match it
C23_Witness ==
  /\ last.op = "group_filter"
  /\ last.fault = "search_media"
  /\ Cardinality(LastMatches) = 2

----------------------------------------------------------------------------
(* Claims about two scans at once, checked under SpecTwoScans. *)

\* a stored document without its time of indexing
NoTime(d) == [d EXCEPT !.indexed_at = 0]

\* the record one scan of channel c writes for msg
ScanRecord(c, msg) ==
  MediaData(0, c, msg.id, msg.file_id, FileNameOf(msg), CaptionOf(msg), msg.kind, msg.file_size)

\* what one complete scan of a channel alone leaves in the store, for every
\* channel (each holds HistMedia)
SingleScans ==
  [c \in ChannelIds |->
     {ScanRecord(c, HistMedia[i]) : i \in {j \in 1..Len(HistMedia) : HasMedia(HistMedia[j])}}]

SingleScan(c) == SingleScans[c]

\* what the store holds for channel c
ChannelRecords(c) ==
  {NoTime(media[i]) : i \in {j \in 1..Len(media) : media[j].channel_id = c}}

\* process p has pulled the whole history of channel c and no upsert of it failed
ScannedAll(p, c) == chan[p] = c /\ obs[p].cause = "exhausted" /\ counters[p].failed = 0

\* the store as one scan per channel would leave it, as far as the scans have come
StoreAsOneScan ==
  /\ \A c \in ChannelIds : ChannelRecords(c) \subseteq SingleScan(c)
  /\ \A i, j \in 1..Len(media) :
       (media[i].channel_id = media[j].channel_id /\ media[i].message_id = media[j].message_id)
         => i = j
  /\ \A c \in ChannelIds :
       (\E p \in Procs : ScannedAll(p, c)) => ChannelRecords(c) = SingleScan(c)

\* C22: with two scans interleaved at their awaits, a step changes what the store
\* holds under a key only when it is the upsert of a scan for that very key, and
\* after every step the store, times of indexing aside, holds one record per key,
\* only records a single scan writes, and all of them for a channel that one of
\* the scans has gone through, whatever the other scan did in between.
C22_InterleavedScansAgree ==
  [][ /\ \A k \in ChannelIds \X {1, 2} :
           DocsAt(media', k) # DocsAt(media, k)
             => \E p \in Procs : /\ pc[p] = "ic_add" /\ pc'[p] # "ic_add"
                                 /\ chan[p] = k[1] /\ cur[p].id = k[2]
      /\ StoreAsOneScan'
    ]_vars

\* both scans have gone through the same channel, each has upserted both of its
\* attachments, and the store holds them once
C22_Witness ==
  /\ \A p \in Procs : ScannedAll(p, -1001) /\ counters[p].processed = 2
  /\ now = 4
  /\ Len(media) = 2

----------------------------------------------------------------------------
(* Claims about the states of a scan, checked under SpecScan. *)

\* the state of the scan machine a program point of index_channel belongs to;
\* OUTSIDE: index_channel is not running (before the call, after its return or
\* after an exception left it)
Phase(at) ==
  CASE at \in {"ic_status", "ic_get_chat", "ic_found_edit"} -> "RESOLVING"
    [] at \in {"ic_history", "ic_add", "ic_progress", "ic_progress_sleep"} -> "SCANNING"
    [] at \in {"ic_progress_flood_sleep", "ic_flood_edit", "ic_flood_sleep",
               "ic_resume_edit"} -> "FLOOD_WAIT"
    [] at \in {"ic_final_edit", "ic_final_reply"} -> "DONE"
    [] at \in {"ic_resfail_edit", "ic_access_edit", "ic_error_edit"} -> "FAILED"
    [] OTHER -> "OUTSIDE"

\* C27: a scan that leaves FLOOD_WAIT (other than by an exception leaving
\* index_channel) is SCANNING again, and a scan enters DONE only from SCANNING,
\* with the whole history of the channel pulled.
C27_FloodWaitReturnsToScanning ==
  [][ \A p \in Procs :
        LET from == Phase(pc[p])
            to   == Phase(pc'[p])
        IN  /\ (from = "FLOOD_WAIT" /\ to \notin {"FLOOD_WAIT", "OUTSIDE"}) => to = "SCANNING"
            /\ (to = "DONE" /\ from # "DONE")
                 => (from = "SCANNING" /\ pos[p] = Len(hist[chan[p]]))
    ]_vars

\* what does hold: the wait a progress edit asked for ends in SCANNING, and a scan
\* that is SCANNING enters DONE only with the history exhausted
ProgressFloodReturnsToScanning ==
  [][ \A p \in Procs :
        /\ (pc[p] = "ic_progress_flood_sleep" /\ pc'[p] # pc[p]) => pc'[p] = "ic_history"
        /\ (Phase(pc[p]) = "SCANNING" /\ Phase(pc'[p]) = "DONE")
             => pos[p] = Len(hist[chan[p]])
    ]_vars

\* C28: while a flood signal with wait w is pending for a scan (raised by the
\* history stream or by a progress edit), the only step the scan takes is the
\* sleep, and the sleep lasts at least w seconds plus the margin of 5: no
\* transport call and no upsert comes before it.
C28_NothingBeforeFloodSleep ==
  [][ \A p \in Procs :
        (wait[p] > 0 /\ pc'[p] # pc[p])
          => /\ pc[p] \in {"ic_flood_sleep", "ic_progress_flood_sleep"}
             /\ slept'[p] >= 10 * wait[p] + FloodMargin
             /\ media' = media
    ]_vars

\* what does hold: with a signal pending the scan pulls no history and upserts
\* nothing, and the step that ends the wait is a sleep of w + 5 seconds
NoPullBeforeFloodSleep ==
  [][ \A p \in Procs :
        (wait[p] > 0 /\ pc'[p] # pc[p])
          => /\ pc[p] \notin {"ic_history", "ic_add"}
             /\ media' = media
             /\ wait'[p] = 0 => slept'[p] = 10 * wait[p] + FloodMargin
    ]_vars

\* C29: a step of a scan that is not an upsert leaves the media collection as it
\* is, whatever the transition (flood wait, failed write, access lost, unexpected
\* error, the summary), and an upsert leaves every record that was there in the
\* store, unchanged but for a time of indexing that is not older.
C29_CommittedRecordsStay ==
  [][ /\ (\A p \in Procs : ~(pc[p] = "ic_add" /\ pc'[p] # "ic_add")) => media' = media
      /\ \A i \in 1..Len(media) :
           \E j \in 1..Len(media') :
             /\ NoTime(media'[j]) = NoTime(media[i])
             /\ media'[j].indexed_at >= media[i].indexed_at
    ]_vars

\* a scan that has committed a record, then had a write fail, then met a flood
\* signal, and the record is in the store
C29_Witness ==
  \E p \in Procs :
    /\ counters[p].processed >= 1
    /\ counters[p].failed >= 1
    /\ pc[p] = "ic_flood_sleep"
    /\ \E i \in 1..Len(media) : media[i].channel_id = chan[p]

\* the reports that end a scan: the finished summary and the three error reports
TerminalReports == {"summary", "resolve_error", "access_error", "unexpected_error"}

\* C30: a scan that was started (its status message went out) and has ended,
\* ended DONE or FAILED, and exactly one terminal report of it was delivered.
C30_ScanEndsWithOneReport ==
  \A p \in Procs :
    (CallEnded(p) /\ "resolving" \in obs[p].sent)
      => /\ LastResult(p) \in {"DONE", "FAILED"}
         /\ Cardinality(obs[p].sent \cap TerminalReports) = 1

\* what does hold: a scan that ended by a return of index_channel or by its last
\* statement delivered exactly one terminal report
ReturnedScanSentOneReport ==
  \A p \in Procs :
    (CallEnded(p) /\ LastResult(p) \in {"DONE", "FAILED"})
      => Cardinality(obs[p].sent \cap TerminalReports) = 1

----------------------------------------------------------------------------
(* The scan and the index markers. *)

\* C31: a step of a scan leaves the settings collection as it was, and a scan
\* that has resolved its channel enters the history at its first message,
\* whatever index marker the channel has.
C31_ScanIgnoresCheckpoint ==
  [][NextScan => /\ settings' = settings
                 /\ \A p \in Procs : pc[p] = "ic_found_edit" /\ pc'[p] = "ic_history"
                                       => pos'[p] = 0]_vars

\* a channel with an index marker, and a scan of it that holds the first message
\* of the history
C31_Witness ==
  \E p \in Procs : /\ chan[p] # 0
                   /\ settings[chan[p]] # 0
                   /\ pc[p] = "ic_add"
                   /\ pos[p] = 1
                   /\ cur[p] = hist[chan[p]][1]

\* C32: a scan is back at the head of its loop with a scanned count that is a
\* positive multiple of the report period only when it comes from the progress
\* report of that count (sent, refused or slept out), whether the message that
\* completed the period was eligible or skipped.
C32_ProgressAtEveryPeriod ==
  [][\A p \in Procs :
       (/\ pc'[p] = "ic_history"
        /\ counters'[p].total > 0
        /\ counters'[p].total % ProgressEvery = 0
        /\ <<pc[p], counters[p]>> # <<pc'[p], counters'[p]>>)
       => pc[p] \in {"ic_progress", "ic_progress_sleep", "ic_progress_flood_sleep"}]_vars

\* the records of the channel that hold message msg
RecordsOf(channel_id, msg) ==
  {i \in 1..Len(media) : media[i].channel_id = channel_id /\ media[i].message_id = msg.id}

\* C33: in the first index_channel call of an /index command, when add_media is
\* issued for a message, the add_media of every eligible message delivered before
\* it has succeeded or failed, and the records of two delivered messages were
\* written in the order of their delivery.
C33_UpsertsInDeliveryOrder ==
  \A p \in Procs :
    (idx[p] = 1 /\ chan[p] # 0) =>
      LET h == hist[chan[p]]
      IN  /\ pc[p] = "ic_add" =>
                /\ cur[p] = h[pos[p]]
                /\ counters[p].processed + counters[p].failed = NumMedia(h, pos[p] - 1)
          /\ \A i, j \in 1..pos[p] :
               i < j => \A a \in RecordsOf(chan[p], h[i]), b \in RecordsOf(chan[p], h[j]) :
                          media[a].indexed_at < media[b].indexed_at

\* add_media is issued for a message delivered after one that is in the store
C33_Witness ==
  \E p \in Procs :
    /\ idx[p] = 1
    /\ pc[p] = "ic_add"
    /\ \E i \in 1..(pos[p] - 1) : RecordsOf(chan[p], hist[chan[p]][i]) # {}

\* C34: a group message, a link, /start, /ban, /unban, /status, a pressed button
\* and every step of /broadcast leave the media collection as it was.
C34_HandlersLeaveMedia == [][media' = media]_vars

\* a group message was searched and answered with results, over a store that
\* holds a record
C34_Witness ==
  /\ last.op = "group_filter"
  /\ last.queried
  /\ last.rows # <<>>
  /\ media = SeededMedia

\* the scanned count is the sum of the three other counts
Balanced(c) == c.total = c.processed + c.skipped + c.failed

\* C35: whenever a scan is between two iterations of its loop (at the head of
\* the loop or in the progress report that ends an iteration), and in the counts
\* of the final summary, scanned = processed + skipped + failed.
C35_CountsAddUp ==
  \A p \in Procs :
    /\ pc[p] \in LoopPcs \ {"ic_add"} => Balanced(counters[p])
    /\ obs[p].summary # NoSummary => Balanced(obs[p].summary)

\* a final summary that counts a processed, a skipped and a failed message
C35_Witness ==
  \E p \in Procs :
    /\ "summary" \in obs[p].sent
    /\ obs[p].summary.processed > 0
    /\ obs[p].summary.skipped > 0
    /\ obs[p].summary.failed > 0

\* C36: while the success report of /clearindex for a channel is the last thing
\* the owner was told, and no index_channel call on the channel has begun since
\* the clear (the calls on it are the ones that were in progress then), the
\* media collection holds no record of the channel.
C36_ClearedStaysCleared ==
  (/\ last.op = "clear_channel"
   /\ last.reply = "cleared"
   /\ \A p \in Procs : chan[p] = last.channel_id => last.calls[p] = idx[p])
    => \A i \in 1..Len(media) : media[i].channel_id # last.channel_id

FailedCountBans ==
  [][bc'.failed = bc.failed + 1 => users'[bc.user] = "banned"]_vars

\* C38: a group message of a banned user ends without a search of the store and
\* without any reply: no results, no not-found note, no join prompt.
C38_BannedUserIsIgnored ==
  (last.op = "group_filter" /\ last.user # 0 /\ users[last.user] = "banned")
    => /\ ~last.queried
       /\ last.rows = <<>>
       /\ last.shown = <<>>
       /\ last.reply = "none"

\* a banned user sent a text that the store has a record for
C38_Witness ==
  /\ last.op = "group_filter"
  /\ last.user # 0
  /\ users[last.user] = "banned"
  /\ ~last.raised
  /\ ~TooShort(last.query)
  /\ SearchMedia(media, last.query, MAX_RESULTS).rows # <<>>

C40_NonMemberIsPrompted ==
  /\ last.op = "check_force_sub" =>
       /\ last.user = OWNER_ID => last.passes
       /\ (/\ last.user # OWNER_ID
           /\ last.member \in NonMember
           /\ ~last.channel.raised
           /\ (last.channel.invite_link # None \/ last.channel.username # None)
           /\ last.sent)
            => last.prompted /\ ~last.passes
  /\ (last.op = "group_filter" /\ last.reply = "join_prompt") => ~last.queried

\* C40 where the channel has a username: the non-member is prompted and stopped
NonMemberIsPromptedByUsername ==
  (/\ last.op = "check_force_sub"
   /\ last.user # OWNER_ID
   /\ last.member \in NonMember
   /\ ~last.channel.raised
   /\ last.channel.username # None
   /\ last.sent)
    => last.prompted /\ ~last.passes

====
